---------------------------- MODULE Spec2Model ----------------------------
(***************************************************************************)
(* Model of the generic tool execution core of library-tools:              *)
(*   - library/tools/render.py    command token rendering                  *)
(*   - library/tools/catalog.py   default / manifest catalog resolution    *)
(*   - library/tools/defaults.py  packaged default catalog constructors    *)
(*   - library/tools/runner.py    the run orchestrator, with its           *)
(*     collaborators resolve.py, workspace.py, models.py, the Manifest     *)
(*     validation of library/manifest.py and utils/runtime.py's run        *)
(* Strings that the code inspects character by character (command argv     *)
(* tokens, destinations, image references) are sequences of one-character  *)
(* strings; strings that the code only compares are TLA+ strings.          *)
(***************************************************************************)
EXTENDS Integers, Sequences, FiniteSets, TLC

VARIABLES
    \* ---- render.command (RenderSpec) ----
    r_pc,        \* "call" before render.command is applied, "done" after
    r_cmd,       \* the command argument: a sequence of argv tokens
    r_inputs,    \* the inputs mapping: key -> ToolInputs
    r_image,     \* the image_reference argument
    r_out,       \* what render.command produced: a Result
    \* ---- catalog.resolve and the default constructors (CatalogSpec) ----
    c_tools,     \* heap of Tool objects: reference -> fields
    c_inputs,    \* heap of Tool.inputs dicts: reference -> (key -> ToolInputs)
    c_lists,     \* heap of list[Tool] objects: reference -> tool references
    c_clis,      \* heap of cli dicts: reference -> (command -> tool id)
    c_case,      \* the tools and cli the Config was constructed from
    c_config,    \* the Config passed to catalog.resolve
    c_handed,    \* what each call so far handed to its caller, in call order
    c_fresh,     \* TRUE while nothing was mutated since the last call returned
    c_ops,       \* number of calls and mutations so far
    \* ---- runner.run (RunSpec) ----
    run_context,        \* the ToolRunContext run was called with
    run_pc,             \* the step run is about to take, "returned" or "raised"
    run_steps,          \* the steps run has taken, in order
    run_manifest_path,  \* manifest_path
    run_manifest,       \* manifest: the Result of _load_manifest
    run_tool,           \* tool: the Result of resolve.for_command
    run_output_dir,     \* output_dir: the Result of workspace.create
    run_command,        \* command: the Result of render.command
    run_volumes,        \* the Result of _build_volumes
    run_result,         \* result: the Result of runtime.run
    run_checked,        \* the Result of the output directory check
    run_outcome,        \* what run handed to its caller: a Result
    run_invocations,    \* number of calls of runtime.run
    fs_files,           \* the regular files of the host
    fs_dirs,            \* the directories made under the output root
    fs_payload,         \* what the manifest file holds
    fs_writable,        \* whether the manifest directory can be written
    \* ---- one call of a function of the core (ResolveSpec, ...) ----
    fn_pc,              \* "call" before the function is applied, "done" after
    fn_args,            \* the arguments of the call
    fn_out,             \* what the call produced: a Result
    \* ---- workspace.create called again and again (WorkspaceSpec) ----
    ws_dirs,            \* the directories that exist
    ws_writable,        \* whether new directories can be made
    ws_calls,           \* the calls of create made so far, with what they produced
    \* ---- two runs at once on one file system (IsolationSpec) ----
    iso_pc,             \* where each run is
    iso_ctx,            \* the root, tool id and time of each run
    iso_dir,            \* what workspace.create gave each run: a Result
    iso_outputs,        \* the output files written: [dir, writer]
    \* ---- runtime.run and its container (AdapterSpec) ----
    ad_pc,              \* the step runtime.run is about to take
    ad_env,             \* stream_output, and what the SDK and the container do
    ad_container,       \* the container: its state, what it wrote, its status
    ad_locals,          \* the local variables of run, and how far it has read
    ad_error,           \* the exception raised inside the try block, if any
    ad_removals,        \* what each call of container.remove did
    ad_out              \* what run handed to its caller: a Result

renderVars == <<r_pc, r_cmd, r_inputs, r_image, r_out>>

catalogVars ==
    <<c_tools, c_inputs, c_lists, c_clis, c_case, c_config, c_handed, c_fresh, c_ops>>

\* what a step of one component leaves alone
runVars ==
    <<run_context, run_pc, run_steps, run_manifest_path, run_manifest, run_tool,
      run_output_dir, run_command, run_volumes, run_result, run_checked, run_outcome,
      run_invocations, fs_files, fs_dirs, fs_payload, fs_writable>>

fnVars == <<fn_pc, fn_args, fn_out>>

workspaceVars == <<ws_dirs, ws_writable, ws_calls, iso_pc, iso_ctx, iso_dir, iso_outputs>>

adapterVars ==
    <<ad_pc, ad_env, ad_container, ad_locals, ad_error, ad_removals, ad_out>>

nonRenderVars == <<catalogVars, runVars, fnVars, workspaceVars, adapterVars>>

nonCatalogVars == <<renderVars, runVars, fnVars, workspaceVars, adapterVars>>

nonRunVars == <<renderVars, catalogVars, fnVars, workspaceVars, adapterVars>>

nonFnVars == <<renderVars, catalogVars, runVars, workspaceVars, adapterVars>>

nonWorkspaceVars == <<renderVars, catalogVars, runVars, fnVars, adapterVars>>

nonAdapterVars == <<renderVars, catalogVars, runVars, fnVars, workspaceVars>>

(***************************************************************************)
(* Results of calls that either return a value or raise.                   *)
(***************************************************************************)
NoValue == <<>>

Ok(v) == [ok |-> TRUE, val |-> v, err |-> "", msg |-> <<>>]

Raise(kind, words) == [ok |-> FALSE, val |-> NoValue, err |-> kind, msg |-> words]

(***************************************************************************)
(* Character-level string helpers (str methods used by the code).          *)
(***************************************************************************)
\* s.startswith(prefix)
StartsWith(s, prefix) ==
    /\ Len(s) >= Len(prefix)
    /\ SubSeq(s, 1, Len(prefix)) = prefix

\* sub in s
Contains(s, sub) ==
    \E i \in 1..(Len(s) - Len(sub) + 1) : SubSeq(s, i, i + Len(sub) - 1) = sub

OPEN == <<"{", "{">>

CLOSE == <<"}", "}">>

\* "{{" in part or "}}" in part
HasBraceMarker(s) == Contains(s, OPEN) \/ Contains(s, CLOSE)

\* the characters \s matches that the model distinguishes
WhiteSpace == {" ", "\t"}

\* the character class [a-zA-Z0-9_.-]
NameChar ==
    {"a", "b", "c", "d", "e", "f", "g", "h", "i", "j", "k", "l", "m", "n", "o",
     "p", "q", "r", "s", "t", "u", "v", "w", "x", "y", "z", "A", "B", "C", "D",
     "E", "F", "G", "H", "I", "J", "K", "L", "M", "N", "O", "P", "Q", "R", "S",
     "T", "U", "V", "W", "X", "Y", "Z", "0", "1", "2", "3", "4", "5", "6", "7",
     "8", "9", "_", ".", "-"}

\* first index >= i whose character is not in class (Len(s)+1 when none)
RECURSIVE SkipClass(_, _, _)
SkipClass(s, i, class) ==
    IF i <= Len(s) /\ s[i] \in class THEN SkipClass(s, i + 1, class) ELSE i

NoMatch == [end |-> 0, name |-> <<>>]

(***************************************************************************)
(* TOOL_TOKEN_PATTERN = {{\s*([a-zA-Z0-9_.-]+)\s*}} tried at position i.   *)
(* The three classes and the braces are pairwise disjoint, so the greedy   *)
(* match never backtracks to another split.                                *)
(***************************************************************************)
MatchAt(s, i) ==
    IF i + 1 <= Len(s) /\ s[i] = "{" /\ s[i + 1] = "{"
    THEN LET b == SkipClass(s, i + 2, WhiteSpace)
             e == SkipClass(s, b, NameChar)
             c == SkipClass(s, e, WhiteSpace)
         IN  IF e > b /\ c + 1 <= Len(s) /\ s[c] = "}" /\ s[c + 1] = "}"
             THEN [end |-> c + 1, name |-> SubSeq(s, b, e - 1)]
             ELSE NoMatch
    ELSE NoMatch

\* TOOL_TOKEN_PATTERN.findall(part): group 1 of every match, left to right
RECURSIVE FindAllFrom(_, _)
FindAllFrom(s, i) ==
    IF i > Len(s) THEN <<>>
    ELSE LET m == MatchAt(s, i)
         IN  IF m.end = 0 THEN FindAllFrom(s, i + 1)
             ELSE <<m.name>> \o FindAllFrom(s, m.end + 1)

FindAll(s) == FindAllFrom(s, 1)

IMAGE_REFERENCE ==
    <<"i", "m", "a", "g", "e", ".", "r", "e", "f", "e", "r", "e", "n", "c", "e">>

INPUTS_PREFIX == <<"i", "n", "p", "u", "t", "s", ".">>

\* token_name.split(".", maxsplit=1)[1]: what follows the first "."
RECURSIVE AfterFirstDot(_)
AfterFirstDot(name) ==
    IF name = <<>> THEN <<>>
    ELSE IF Head(name) = "." THEN Tail(name) ELSE AfterFirstDot(Tail(name))

E_MALFORMED == "Malformed template token in tool command."

E_UNDEFINED == "Command references undefined input token"

E_UNSUPPORTED == "Unsupported command token"

\* _resolve_token with the input's source returned in place of its destination
ResolveTokenSource(token_name, inputs, image_reference) ==
    IF token_name = IMAGE_REFERENCE THEN Ok(image_reference)
    ELSE IF StartsWith(token_name, INPUTS_PREFIX)
         THEN LET input_key == AfterFirstDot(token_name)
              IN  IF input_key \notin DOMAIN inputs
                  THEN Raise("ValueError", <<E_UNDEFINED, token_name>>)
                  ELSE Ok(inputs[input_key].source)
         ELSE Raise("ValueError", <<E_UNSUPPORTED, token_name>>)

\* _resolve_token with unknown names resolved to the empty string
ResolveTokenLenient(token_name, inputs, image_reference) ==
    IF token_name = IMAGE_REFERENCE THEN Ok(image_reference)
    ELSE IF StartsWith(token_name, INPUTS_PREFIX)
            /\ AfterFirstDot(token_name) \in DOMAIN inputs
         THEN Ok(inputs[AfterFirstDot(token_name)].destination)
         ELSE Ok(<<>>)

\* render._resolve_token
ResolveToken(token_name, inputs, image_reference) ==
    IF token_name = IMAGE_REFERENCE THEN Ok(image_reference)
    ELSE IF StartsWith(token_name, INPUTS_PREFIX)
         THEN LET input_key == AfterFirstDot(token_name)
              IN  IF input_key \notin DOMAIN inputs
                  THEN Raise("ValueError", <<E_UNDEFINED, token_name>>)
                  ELSE Ok(inputs[input_key].destination)
         ELSE Raise("ValueError", <<E_UNSUPPORTED, token_name>>)

(***************************************************************************)
(* TOOL_TOKEN_PATTERN.sub(replacer, part): the text between matches is     *)
(* copied, each match is replaced by replacer's value, inserted as is; the *)
(* first replacer call that raises ends the substitution.                  *)
(***************************************************************************)
RECURSIVE SubFrom(_, _, _, _)
SubFrom(s, i, inputs, image_reference) ==
    IF i > Len(s) THEN Ok(<<>>)
    ELSE LET m == MatchAt(s, i)
         IN  IF m.end = 0
             THEN LET rest == SubFrom(s, i + 1, inputs, image_reference)
                  IN  IF rest.ok THEN Ok(<<s[i]>> \o rest.val) ELSE rest
             ELSE LET v == ResolveToken(m.name, inputs, image_reference)
                  IN  IF ~v.ok THEN v
                      ELSE LET rest == SubFrom(s, m.end + 1, inputs, image_reference)
                           IN  IF rest.ok THEN Ok(v.val \o rest.val) ELSE rest

\* the body of render.command's loop without the check after substitution
RenderPartUnchecked(part, inputs, image_reference) ==
    IF HasBraceMarker(part) /\ FindAll(part) = <<>>
    THEN Raise("ValueError", <<E_MALFORMED>>)
    ELSE SubFrom(part, 1, inputs, image_reference)

\* the body of render.command's loop for one argv token
RenderPart(part, inputs, image_reference) ==
    IF HasBraceMarker(part) /\ FindAll(part) = <<>>
    THEN Raise("ValueError", <<E_MALFORMED>>)
    ELSE LET rendered_part == SubFrom(part, 1, inputs, image_reference)
         IN  IF ~rendered_part.ok THEN rendered_part
             ELSE IF HasBraceMarker(rendered_part.val)
                  THEN Raise("ValueError", <<E_MALFORMED>>)
                  ELSE rendered_part

\* render.command: the tokens rendered in order, the first error raised
RECURSIVE RenderCommand(_, _, _)
RenderCommand(command, inputs, image_reference) ==
    IF command = <<>> THEN Ok(<<>>)
    ELSE LET first == RenderPart(Head(command), inputs, image_reference)
         IN  IF ~first.ok THEN first
             ELSE LET rest == RenderCommand(Tail(command), inputs, image_reference)
                  IN  IF rest.ok THEN Ok(<<first.val>> \o rest.val) ELSE rest

(***************************************************************************)
(* RenderSpec: render.command applied to bounded inputs.                   *)
(* An argv token is the concatenation of at most MaxParts pieces, so that   *)
(* well-formed placeholders, stray brace markers and literals meet in one  *)
(* token in every order.                                                   *)
(***************************************************************************)
MaxParts == 2

Pieces ==
    { <<"x">>,
      <<"{">>,
      OPEN,
      CLOSE,
      <<"{", "{", "i", "n", "p", "u", "t", "s", ".", "a", "}", "}">>,
      <<"{", "{", " ", "i", "n", "p", "u", "t", "s", ".", "b", "\t", "}", "}">>,
      <<"{", "{", " ", "i", "m", "a", "g", "e", ".", "r", "e", "f", "e", "r", "e", "n", "c", "e", "}", "}">>,
      <<"{", "{", "o", "u", "t", "p", "u", "t", "s", "}", "}">>,
      <<"{", "{", "I", "n", "p", "u", "t", "s", ".", "a", "}", "}">>,
      <<"{", "{", "i", "n", "p", "u", "t", "s", ".", " ", "a", "}", "}">> }

RECURSIVE TokensUpTo(_)
TokensUpTo(n) ==
    IF n = 0 THEN {<<>>}
    ELSE LET shorter == TokensUpTo(n - 1)
         IN  shorter \cup {t \o p : t \in shorter, p \in Pieces}

RenderTokens == TokensUpTo(MaxParts)

LIT_V == <<"-", "v">>

TOK_IMAGE == OPEN \o IMAGE_REFERENCE \o CLOSE

\* the argv lists render.command is applied to: the token alone, or between
\* a literal and a placeholder token
RenderCommands ==
    {<<t>> : t \in RenderTokens}
        \cup {<<LIT_V, t>> : t \in RenderTokens}
        \cup {<<t, TOK_IMAGE>> : t \in RenderTokens}

KEY_A == <<"a">>

KEY_B == <<"b">>

DEFAULT_SOURCE == <<"d", "e", "f", "a", "u", "l", "t">>

ToolInput(source, destination) == [source |-> source, destination |-> destination]

\* inputs mappings: none declared, only a, a and b with destinations that
\* themselves hold brace markers
RenderInputs ==
    { <<>>,
      (KEY_A :> ToolInput(DEFAULT_SOURCE, <<"/", "d", "/", "a">>)),
      (KEY_A :> ToolInput(DEFAULT_SOURCE, <<"/", "d", "/", "a">>))
          @@ (KEY_B :> ToolInput(<<"c", "f", "g">>, <<"/", "b">>)),
      (KEY_A :> ToolInput(DEFAULT_SOURCE, <<"/", "d", "}", "}">>))
          @@ (KEY_B :> ToolInput(<<"c", "f", "g">>, <<"/", "{", "{", "x">>)) }

RenderImages ==
    { <<"r", "e", "g", "/", "i", "m", "g", ":", "1">>,
      <<"{", "{", "i", "n", "p", "u", "t", "s", ".", "a", "}", "}">> }

NotCalled == Raise("NotCalled", <<>>)

RenderInit ==
    /\ r_pc = "call"
    /\ r_cmd \in RenderCommands
    /\ r_inputs \in RenderInputs
    /\ r_image \in RenderImages
    /\ r_out = NotCalled

\* rendered = render.command(command, inputs=inputs, image_reference=image)
Render ==
    /\ r_pc = "call"
    /\ r_out' = RenderCommand(r_cmd, r_inputs, r_image)
    /\ r_pc' = "done"
    /\ UNCHANGED <<r_cmd, r_inputs, r_image>>
    /\ UNCHANGED nonRenderVars

RenderNext == Render

RenderIdle ==
    /\ r_pc = "idle"
    /\ r_cmd = <<>>
    /\ r_inputs = <<>>
    /\ r_image = <<>>
    /\ r_out = NotCalled


(***************************************************************************)
(* CatalogSpec: catalog.resolve and the default constructors on a heap of  *)
(* mutable objects.  Tool objects, their inputs dicts, list[Tool] objects   *)
(* and cli dicts live in four heaps; a reference is an index into its      *)
(* heap, allocation appends.  A ToolInputs value is held inside its dict.  *)
(***************************************************************************)
MaxOps == 4

Heap == [tools |-> c_tools, inputs |-> c_inputs, lists |-> c_lists, clis |-> c_clis]

\* references of the module-level objects
REF_DEFAULT_HADOLINT_TOOL == 1

REF_DEFAULT_TRIVY_TOOL == 2

REF_DEFAULT_REFURBISH_TOOL == 3

REF_HadolintTool == 4

REF_CUSTOM_SCAN == 5

REF_CUSTOM_LINT == 6

REF_DEFAULT_CLI == 1

REF_HadolintCli == 2

REF_CONFIG_CLI == 3

REF_CONFIG_TOOLS == 1

InitInputs ==
    << ("hadolint" :> ToolInput("default", "/inputs/.hadolint.yaml"))
           @@ ("dockerfile" :> ToolInput("default", "/inputs/Dockerfile")),
       ("trivy" :> ToolInput("default", "/inputs/.trivy.yaml")),
       ("renovate" :> ToolInput("default", "/repo/renovate.json5"))
           @@ ("dockerfile" :> ToolInput("default", "/repo/Dockerfile")),
       ("hadolint" :> ToolInput("default", "/inputs/.hadolint.yaml"))
           @@ ("dockerfile" :> ToolInput("default", "/inputs/Dockerfile")),
       ("cfg" :> ToolInput("/m/cfg.yaml", "/config/cfg.yaml")),
       ("hadolint" :> ToolInput("/m/.hadolint.yaml", "/inputs/.hadolint.yaml")) >>

ToolObject(id, parser, image, command, inputs, socket) ==
    [id |-> id, parser |-> parser, image |-> image, command |-> command,
     inputs |-> inputs, socket |-> socket]

InitTools ==
    << ToolObject("default-linter", "hadolint", "docker.io/hadolint/hadolint:latest",
                  <<"hadolint", "--config", "{{inputs.hadolint}}", "--format", "json",
                    "{{inputs.dockerfile}}">>, 1, FALSE),
       ToolObject("default-scanner", "trivy", "docker.io/aquasec/trivy:latest",
                  <<"image", "--config", "{{inputs.trivy}}", "--format", "json",
                    "--output", "/outputs/scan.json", "--severity", "HIGH,CRITICAL",
                    "--exit-code", "1", "--quiet", "--no-progress",
                    "{{image.reference}}">>, 2, TRUE),
       ToolObject("default-refurbisher", "renovate", "docker.io/renovate/renovate:latest",
                  <<"sh", "-lc", "cd /repo && renovate ...">>, 3, FALSE),
       ToolObject("default-linter", "hadolint", "docker.io/hadolint/hadolint:latest",
                  <<"hadolint", "--config", "{{inputs.hadolint}}", "--format", "json",
                    "{{inputs.dockerfile}}">>, 4, FALSE),
       ToolObject("custom-scan", "trivy", "docker.io/aquasec/trivy:latest",
                  <<"trivy", "image", "--config", "{{inputs.cfg}}",
                    "{{image.reference}}">>, 5, TRUE),
       ToolObject("custom-lint", "hadolint", "docker.io/hadolint/hadolint:latest",
                  <<"hadolint", "--config", "{{inputs.hadolint}}">>, 6, FALSE) >>

\* defaults.DEFAULT_CLI
DEFAULT_CLI ==
    ("lint" :> "default-linter") @@ ("scan" :> "default-scanner")
        @@ ("refurbish" :> "default-refurbisher")

\* default.HadolintCli
HadolintCli == ("lint" :> "default-linter")

EmptyDict == <<>>

\* the Configs catalog.resolve is applied to: (config.tools, config.cli)
ConfigCases ==
    { [tools |-> <<REF_CUSTOM_SCAN>>, cli |-> ("scan" :> "custom-scan")],
      [tools |-> <<REF_CUSTOM_SCAN, REF_CUSTOM_LINT>>,
       cli |-> ("scan" :> "custom-scan") @@ ("lint" :> "custom-lint")],
      [tools |-> <<REF_CUSTOM_SCAN>>, cli |-> EmptyDict],
      [tools |-> <<>>, cli |-> ("scan" :> "custom-scan")],
      [tools |-> <<>>, cli |-> EmptyDict] }

InitHeap(case) ==
    [tools |-> InitTools, inputs |-> InitInputs, lists |-> <<case.tools>>,
     clis |-> <<DEFAULT_CLI, HadolintCli, case.cli>>]

\* the names library/default.py binds, with the reference each is bound to
DefaultModule ==
    ("MANIFEST_FILENAME" :> 0) @@ ("HadolintTool" :> REF_HadolintTool)
        @@ ("HadolintCli" :> REF_HadolintCli)

\* default.<name>: an attribute the module does not bind raises
GetDefaultAttr(name) ==
    IF name \in DOMAIN DefaultModule THEN Ok(DefaultModule[name])
    ELSE Raise("AttributeError", <<"module", "library.default", "has", "no", "attribute", name>>)

E_PARTIAL_OVERRIDE ==
    <<"Manifest", "override", "requires", "both", "config.tools", "and", "config.cli", ".">>

\* tool.model_copy(deep=False): a new Tool object sharing the inputs dict
ShallowCopyTool(H, ref) ==
    [heap |-> [H EXCEPT !.tools = Append(@, H.tools[ref])],
     ref |-> Len(H.tools) + 1]

\* tool.model_copy(deep=True): a new Tool object with an inputs dict of its own
DeepCopyTool(H, ref) ==
    [heap |-> [H EXCEPT
                 !.tools = Append(@, [H.tools[ref] EXCEPT !.inputs = Len(H.inputs) + 1]),
                 !.inputs = Append(@, H.inputs[H.tools[ref].inputs])],
     ref |-> Len(H.tools) + 1]

\* [tool.model_copy(deep=True) for tool in tools]: the copies, in order, in a new list
RECURSIVE CopyEach(_, _)
CopyEach(H, refs) ==
    IF refs = <<>> THEN [heap |-> H, refs |-> <<>>]
    ELSE LET c == DeepCopyTool(H, Head(refs))
             r == CopyEach(c.heap, Tail(refs))
         IN  [heap |-> r.heap, refs |-> <<c.ref>> \o r.refs]

NewList(H, refs) ==
    [heap |-> [H EXCEPT !.lists = Append(@, refs)], ref |-> Len(H.lists) + 1]

\* dict(mapping): a new dict with the same items
NewDict(H, mapping) ==
    [heap |-> [H EXCEPT !.clis = Append(@, mapping)], ref |-> Len(H.clis) + 1]

Handed(tools, cli, source) == [tools |-> tools, cli |-> cli, source |-> source]

\* catalog._default_tools
CatalogDefaultTools(H) ==
    LET attr == GetDefaultAttr("DefaultTools")
    IN  IF ~attr.ok THEN [heap |-> H, res |-> attr]
        ELSE LET c == CopyEach(H, H.lists[attr.val])
                 l == NewList(c.heap, c.refs)
             IN  [heap |-> l.heap, res |-> Ok(l.ref)]

\* catalog.resolve with the partial-override guard testing tools-only
CatalogResolveToolsOnlyGuard(H, config) ==
    LET has_tools == H.lists[config.tools] # <<>>
        has_cli == DOMAIN H.clis[config.cli] # {}
    IN  IF has_tools /\ has_cli
        THEN LET c == CopyEach(H, H.lists[config.tools])
                 l == NewList(c.heap, c.refs)
                 d == NewDict(l.heap, l.heap.clis[config.cli])
             IN  [heap |-> d.heap, res |-> Ok(Handed(l.ref, d.ref, "manifest"))]
        ELSE IF has_tools /\ ~has_cli
        THEN [heap |-> H, res |-> Raise("ValueError", E_PARTIAL_OVERRIDE)]
        ELSE LET d == NewDict(H, H.clis[REF_DEFAULT_CLI])
             IN  [heap |-> d.heap, res |-> Ok(Handed(0, d.ref, "default"))]

\* catalog.resolve
CatalogResolve(H, config) ==
    LET has_tools == H.lists[config.tools] # <<>>
        has_cli == DOMAIN H.clis[config.cli] # {}
    IN  IF has_tools /\ has_cli
        THEN LET c == CopyEach(H, H.lists[config.tools])
                 l == NewList(c.heap, c.refs)
                 d == NewDict(l.heap, l.heap.clis[config.cli])
             IN  [heap |-> d.heap, res |-> Ok(Handed(l.ref, d.ref, "manifest"))]
        ELSE IF has_tools # has_cli
        THEN [heap |-> H, res |-> Raise("ValueError", E_PARTIAL_OVERRIDE)]
        ELSE LET t == CatalogDefaultTools(H)
             IN  IF ~t.res.ok THEN t
                 ELSE LET attr == GetDefaultAttr("DefaultCli")
                      IN  IF ~attr.ok THEN [heap |-> t.heap, res |-> attr]
                          ELSE LET d == NewDict(t.heap, t.heap.clis[attr.val])
                               IN  [heap |-> d.heap,
                                    res |-> Ok(Handed(t.res.val, d.ref, "default"))]

\* defaults.default_tools
DefaultsDefaultTools(H) ==
    LET c == CopyEach(H, <<REF_DEFAULT_HADOLINT_TOOL, REF_DEFAULT_TRIVY_TOOL,
                           REF_DEFAULT_REFURBISH_TOOL>>)
        l == NewList(c.heap, c.refs)
    IN  [heap |-> l.heap, res |-> Ok(Handed(l.ref, 0, ""))]

\* defaults.default_cli
DefaultsDefaultCli(H) ==
    LET d == NewDict(H, H.clis[REF_DEFAULT_CLI])
    IN  [heap |-> d.heap, res |-> Ok(Handed(0, d.ref, ""))]

\* defaults.default_config: a Config over the fresh tools and the fresh cli
DefaultsDefaultConfig(H) ==
    LET t == DefaultsDefaultTools(H)
        d == DefaultsDefaultCli(t.heap)
    IN  [heap |-> d.heap, res |-> Ok(Handed(t.res.val.tools, d.res.val.cli, ""))]

CatalogInit ==
    /\ c_case \in ConfigCases
    /\ c_tools = InitHeap(c_case).tools
    /\ c_inputs = InitHeap(c_case).inputs
    /\ c_lists = InitHeap(c_case).lists
    /\ c_clis = InitHeap(c_case).clis
    /\ c_config = [tools |-> REF_CONFIG_TOOLS, cli |-> REF_CONFIG_CLI]
    /\ c_handed = <<>>
    /\ c_fresh = FALSE
    /\ c_ops = 0

\* the caller receives what the call returned or raised
Return(call, r) ==
    /\ c_tools' = r.heap.tools
    /\ c_inputs' = r.heap.inputs
    /\ c_lists' = r.heap.lists
    /\ c_clis' = r.heap.clis
    /\ c_handed' = Append(c_handed, [call |-> call, res |-> r.res])
    /\ c_fresh' = TRUE
    /\ c_ops' = c_ops + 1
    /\ UNCHANGED <<c_case, c_config>>
    /\ UNCHANGED nonCatalogVars

CallResolve == c_ops < MaxOps /\ Return("resolve", CatalogResolve(Heap, c_config))

CallDefaultTools == c_ops < MaxOps /\ Return("default_tools", DefaultsDefaultTools(Heap))

CallDefaultCli == c_ops < MaxOps /\ Return("default_cli", DefaultsDefaultCli(Heap))

CallDefaultConfig == c_ops < MaxOps /\ Return("default_config", DefaultsDefaultConfig(Heap))

MUTATED_IMAGE == "docker.io/example/other:1"

MUTATED_DESTINATION == "/mutated"

\* the first Tool of a handed-out tools list, 0 when there is none
FirstTool(h) ==
    IF c_handed[h].res.ok /\ c_handed[h].res.val.tools # 0
          /\ c_lists[c_handed[h].res.val.tools] # <<>>
    THEN c_lists[c_handed[h].res.val.tools][1]
    ELSE 0

Mutated ==
    /\ c_fresh' = FALSE
    /\ c_ops' = c_ops + 1
    /\ UNCHANGED <<c_case, c_config, c_handed>>
    /\ UNCHANGED nonCatalogVars

\* caller code: result.tools[0].image = "docker.io/example/other:1"
MutateImage ==
    /\ c_ops < MaxOps
    /\ \E h \in 1..Len(c_handed) :
          /\ FirstTool(h) # 0
          /\ c_tools' = [c_tools EXCEPT ![FirstTool(h)].image = MUTATED_IMAGE]
    /\ UNCHANGED <<c_inputs, c_lists, c_clis>>
    /\ Mutated

\* caller code: result.tools[0].inputs[key].destination = "/mutated"
MutateDestination ==
    /\ c_ops < MaxOps
    /\ \E h \in 1..Len(c_handed) :
          /\ FirstTool(h) # 0
          /\ LET d == c_tools[FirstTool(h)].inputs
                 key == CHOOSE k \in DOMAIN c_inputs[d] : TRUE
             IN  c_inputs' = [c_inputs EXCEPT ![d][key].destination = MUTATED_DESTINATION]
    /\ UNCHANGED <<c_tools, c_lists, c_clis>>
    /\ Mutated

\* caller code: result.tools.pop()
MutateListPop ==
    /\ c_ops < MaxOps
    /\ \E h \in 1..Len(c_handed) :
          /\ FirstTool(h) # 0
          /\ LET l == c_handed[h].res.val.tools
             IN  c_lists' = [c_lists EXCEPT ![l] = SubSeq(@, 1, Len(@) - 1)]
    /\ UNCHANGED <<c_tools, c_inputs, c_clis>>
    /\ Mutated

\* caller code: result.cli.clear()
MutateCliClear ==
    /\ c_ops < MaxOps
    /\ \E h \in 1..Len(c_handed) :
          /\ c_handed[h].res.ok
          /\ c_handed[h].res.val.cli # 0
          /\ c_clis' = [c_clis EXCEPT ![c_handed[h].res.val.cli] = EmptyDict]
    /\ UNCHANGED <<c_tools, c_inputs, c_lists>>
    /\ Mutated

CatalogNext ==
    \/ CallResolve
    \/ CallDefaultTools
    \/ CallDefaultCli
    \/ CallDefaultConfig
    \/ MutateImage
    \/ MutateDestination
    \/ MutateListPop
    \/ MutateCliClear


CatalogIdle ==
    /\ c_tools = <<>>
    /\ c_inputs = <<>>
    /\ c_lists = <<>>
    /\ c_clis = <<>>
    /\ c_case = [tools |-> <<>>, cli |-> EmptyDict]
    /\ c_config = [tools |-> 0, cli |-> 0]
    /\ c_handed = <<>>
    /\ c_fresh = FALSE
    /\ c_ops = 0

(***************************************************************************)
(* RunSpec: runner.run on a small world.  A host path is the sequence of    *)
(* its components, absolute when the first one is "/"; a container path    *)
(* and every other text the renderer reads is a sequence of characters.    *)
(* A dict is the sequence of its items in insertion order.                 *)
(***************************************************************************)
IsAbsolute(p) == p # <<>> /\ Head(p) = "/"

\* Path.parent
Parent(p) == IF Len(p) > 1 THEN SubSeq(p, 1, Len(p) - 1) ELSE p

\* base / p
Join(base, p) == IF IsAbsolute(p) THEN p ELSE base \o p

\* the process working directory
CWD == <<"/", "w">>

RECURSIVE Normalize(_, _)
Normalize(todo, done) ==
    IF todo = <<>> THEN done
    ELSE IF Head(todo) = "." THEN Normalize(Tail(todo), done)
    ELSE IF Head(todo) = ".." THEN Normalize(Tail(todo), Parent(done))
    ELSE Normalize(Tail(todo), Append(done, Head(todo)))

\* Path.resolve() on a file system without symbolic links
ResolvePath(p) ==
    IF IsAbsolute(p) THEN Normalize(Tail(p), <<"/">>) ELSE Normalize(p, CWD)

\* an optional value: None, or the value held
None == {}

Some(v) == {v}

The(opt) == CHOOSE v \in opt : TRUE

Item(k, v) == [key |-> k, value |-> v]

DictKeys(d) == {d[i].key : i \in DOMAIN d}

DictGet(d, k) == d[CHOOSE i \in DOMAIN d : d[i].key = k].value

\* d[k] = v: an existing key keeps its position and takes the new value
DictSet(d, k, v) ==
    IF k \in DictKeys(d)
    THEN [i \in DOMAIN d |-> IF d[i].key = k THEN Item(k, v) ELSE d[i]]
    ELSE Append(d, Item(k, v))

\* the dict read as a mapping
AsMapping(d) == [k \in DictKeys(d) |-> DictGet(d, k)]

CONTAINER_OUTPUTS_PATH == <<"/", "o", "u", "t", "p", "u", "t", "s">>

DOCKER_SOCKET_PATH ==
    <<"/", "v", "a", "r", "/", "r", "u", "n", "/",
      "d", "o", "c", "k", "e", "r", ".", "s", "o", "c", "k">>

\* DOCKER_SOCKET_PATH as the key of the volumes dict
DOCKER_SOCKET_KEY == <<"/", "var", "run", "docker.sock">>

OUTPUT_ROOT_DIRNAME == ".library-tool-outputs"

\* ---- the files of the world ----
MANIFEST_FILE == <<"/", "m", "manifest.yaml">>

CFG_FILE == <<"/", "m", "cfg.yaml">>

HADOLINT_CONFIG_PATH == <<"/", "pkg", "library", ".hadolint.yaml">>

TRIVY_CONFIG_PATH == <<"/", "pkg", "library", ".trivy.yaml">>

RENOVATE_CONFIG_PATH == <<"/", "pkg", "library", "renovate.json5">>

PackagedFiles == {HADOLINT_CONFIG_PATH, TRIVY_CONFIG_PATH, RENOVATE_CONFIG_PATH}

KEY_CFG == <<"c", "f", "g">>

KEY_HADOLINT == <<"h", "a", "d", "o", "l", "i", "n", "t">>

KEY_TRIVY == <<"t", "r", "i", "v", "y">>

KEY_RENOVATE == <<"r", "e", "n", "o", "v", "a", "t", "e">>

KEY_DOCKERFILE == <<"d", "o", "c", "k", "e", "r", "f", "i", "l", "e">>

DEFAULT_INPUT_REGISTRY ==
    (KEY_HADOLINT :> HADOLINT_CONFIG_PATH)
        @@ (KEY_TRIVY :> TRIVY_CONFIG_PATH)
        @@ (KEY_RENOVATE :> RENOVATE_CONFIG_PATH)

\* ---- the tools a manifest of the world declares ----
Tool(id, parser, image, command, inputs, socket) ==
    [id |-> id, parser |-> parser, image |-> image, command |-> command,
     inputs |-> inputs, socket |-> socket]

TOOL_IMAGE == <<"a", "l", "p", "i", "n", "e">>

TOK_CFG == OPEN \o INPUTS_PREFIX \o KEY_CFG \o CLOSE

\* one input given relative to the manifest, the socket mounted
T_SCAN ==
    Tool("scanner", KEY_TRIVY, TOOL_IMAGE,
         << <<"-", "c">>, TOK_CFG, <<"{", "{", " ">> \o IMAGE_REFERENCE \o <<" ", "}", "}">> >>,
         << Item(KEY_CFG, ToolInput(<<"cfg.yaml">>, <<"/", "c">>)) >>,
         TRUE)

\* two inputs that name the same host file in two ways
T_TWO ==
    Tool("two", KEY_TRIVY, TOOL_IMAGE,
         << OPEN \o INPUTS_PREFIX \o KEY_A \o CLOSE,
            OPEN \o INPUTS_PREFIX \o KEY_B \o CLOSE >>,
         << Item(KEY_A, ToolInput(<<".", "cfg.yaml">>, <<"/", "a">>)),
            Item(KEY_B, ToolInput(CFG_FILE, <<"/", "b">>)) >>,
         FALSE)

\* an input with the packaged default source
T_LINT ==
    Tool("lint", KEY_HADOLINT, TOOL_IMAGE,
         << OPEN \o INPUTS_PREFIX \o KEY_HADOLINT \o CLOSE >>,
         << Item(KEY_HADOLINT, ToolInput(DEFAULT_SOURCE, <<"/", "h">>)) >>,
         FALSE)

\* a destination that holds a brace marker
T_BRACE ==
    Tool("brace", KEY_TRIVY, TOOL_IMAGE,
         << TOK_CFG >>,
         << Item(KEY_CFG, ToolInput(CFG_FILE, <<"/", "{", "{">>)) >>,
         FALSE)

\* no inputs, no placeholders
T_PLAIN == Tool("plain", KEY_TRIVY, TOOL_IMAGE, << <<"-", "v">> >>, <<>>, FALSE)

\* a destination that is not absolute
T_BAD_DESTINATION ==
    Tool("plain", KEY_TRIVY, TOOL_IMAGE, << <<"-", "v">> >>,
         << Item(KEY_HADOLINT, ToolInput(DEFAULT_SOURCE, <<"h">>)) >>, FALSE)

\* a placeholder of an input that is not declared
T_BAD_TOKEN == Tool("plain", KEY_TRIVY, TOOL_IMAGE, << TOK_CFG >>, <<>>, FALSE)

\* ---- what safe_load reads from the manifest file ----
Build(context, file) == [context |-> context, file |-> file]

Payload(kind, tools, cli) ==
    [kind |-> kind, build |-> Build(<<".">>, <<"Dockerfile">>),
     config |-> [tools |-> tools, cli |-> cli]]

Payloads ==
    { Payload("none", <<>>, <<>>),
      Payload("list", <<>>, <<>>),
      Payload("dict",
              <<T_SCAN, T_TWO, T_LINT, T_BRACE, T_PLAIN>>,
              <<Item("scan", "scanner"), Item("two", "two"), Item("lint", "lint"),
                Item("brace", "brace"), Item("plain", "plain")>>),
      Payload("dict", <<T_LINT, T_PLAIN>>,
              <<Item("lint", "lint"), Item("plain", "plain")>>),
      Payload("dict", <<T_PLAIN, T_PLAIN>>, <<Item("plain", "plain")>>),
      Payload("dict", <<T_PLAIN>>, <<Item("plain", "missing")>>),
      Payload("dict", <<T_BAD_TOKEN, T_BAD_TOKEN>>, <<Item("plain", "missing")>>),
      Payload("dict", <<T_BAD_DESTINATION>>, <<Item("plain", "plain")>>),
      Payload("dict", <<T_BAD_TOKEN>>, <<Item("plain", "plain")>>),
      Payload("dict", <<>>, <<>>),
      Payload("dict", <<T_PLAIN>>, <<>>),
      Payload("dict", <<>>, <<Item("scan", "default-scanner")>>) }

\* ---- the contexts run is called with ----
\* a datetime: its calendar fields, and the offset of its time zone in
\* seconds east of UTC if it has one
DateTime(year, month, day, hour, minute, second, microsecond, tzinfo) ==
    [year |-> year, month |-> month, day |-> day, hour |-> hour, minute |-> minute,
     second |-> second, microsecond |-> microsecond, tzinfo |-> tzinfo]

RunTimes ==
    { DateTime(2026, 2, 18, 20, 0, 0, 0, None),
      DateTime(2026, 2, 18, 20, 0, 0, 0, Some(3600)) }

ToolRunContext(manifest, command, image, time, tool, output_root) ==
    [manifest |-> manifest, command |-> command, image |-> image, time |-> time,
     tool |-> tool, output_root |-> output_root]

E_RESOLUTION_INPUTS == "Tool execution requires a manifest path or explicit tool config."

\* ToolRunContext.validate_resolution_inputs
ValidateResolutionInputs(context) ==
    IF context.manifest = None /\ context.tool = None
    THEN Raise("ValidationError", <<E_RESOLUTION_INPUTS>>)
    ELSE Ok(context)

ContextManifests ==
    { None,
      Some(MANIFEST_FILE),
      Some(<<"..", "m", "manifest.yaml">>),
      Some(<<"manifest.yaml">>) }

ContextCommands == {"scan", "two", "lint", "brace", "plain", "unknown"}

ContextImages ==
    { <<"r", "e", "g", "/", "i", "m", "g", ":", "1">>,
      <<"{", "{", "x">> }

OUTPUT_ROOT == <<"/", "o">>

\* no explicit tool, or one with the directory its outputs are to go under
ContextTools == { <<None, None>>, <<Some(T_PLAIN), Some(OUTPUT_ROOT)>> }

\* the contexts that can be constructed
RunContexts ==
    { context \in
        { ToolRunContext(m, c, i, t, explicit[1], explicit[2]) :
            m \in ContextManifests, c \in ContextCommands,
            i \in ContextImages, t \in RunTimes, explicit \in ContextTools } :
        /\ ValidateResolutionInputs(context).ok
        /\ context.tool # None => context.manifest \in {None, Some(MANIFEST_FILE)} }

\* ---- how a raised error passes through the code that follows ----
\* res, then next applied to its value: an error in res is what comes out
Bind(res, next(_)) == IF res.ok THEN next(res.val) ELSE res

\* the values of results in order, or the first error among them
FirstError(results) ==
    LET failed == {i \in DOMAIN results : ~results[i].ok}
    IN  IF failed = {} THEN Ok([i \in DOMAIN results |-> results[i].val])
        ELSE results[CHOOSE i \in failed : \A j \in failed : i <= j]

\* ---- runner._normalize_input_sources ----
\* a relative source resolved from the working directory, not the manifest's
NormalizeInputFromCwd(path, input_data) ==
    IF input_data.source = DEFAULT_SOURCE \/ IsAbsolute(input_data.source)
    THEN input_data
    ELSE ToolInput(ResolvePath(input_data.source), input_data.destination)

NormalizeInput(path, input_data) ==
    IF input_data.source = DEFAULT_SOURCE \/ IsAbsolute(input_data.source)
    THEN input_data
    ELSE ToolInput(ResolvePath(Join(Parent(path), input_data.source)),
                   input_data.destination)

NormalizeTool(path, tool) ==
    [tool EXCEPT !.inputs =
        [i \in DOMAIN tool.inputs |->
            Item(tool.inputs[i].key, NormalizeInput(path, tool.inputs[i].value))]]

NormalizeInputSources(path, payload) ==
    [payload EXCEPT !.config.tools =
        [i \in DOMAIN payload.config.tools |->
            NormalizeTool(path, payload.config.tools[i])]]

\* ---- validation on Manifest.from_dict ----
E_DESTINATION == "Tool input destination must be an absolute container path."

E_SOURCE == "Path does not point to a file"

\* ToolInputs without validate_destination_path
ValidateToolInputsSourceOnly(input_data, files) ==
    IF input_data.source # DEFAULT_SOURCE /\ ResolvePath(input_data.source) \notin files
    THEN Raise("ValidationError", <<E_SOURCE>>)
    ELSE Ok(input_data)

\* ToolInputs: source is "default" or an existing file, destination is absolute
ValidateToolInputs(input_data, files) ==
    IF input_data.source # DEFAULT_SOURCE /\ ResolvePath(input_data.source) \notin files
    THEN Raise("ValidationError", <<E_SOURCE>>)
    ELSE IF ~StartsWith(input_data.destination, <<"/">>)
    THEN Raise("ValidationError", <<E_DESTINATION>>)
    ELSE Ok(input_data)

\* the check of the names with any inputs.<key> taken as declared
ValidateTokenNamesAnyKey(names, input_keys) ==
    LET unsupported ==
            { i \in DOMAIN names :
                /\ names[i] # IMAGE_REFERENCE
                /\ ~StartsWith(names[i], INPUTS_PREFIX) }
    IN  IF unsupported = {} THEN Ok(<<>>)
        ELSE Raise("ValidationError",
                   <<E_UNSUPPORTED, names[CHOOSE i \in unsupported : TRUE]>>)

RECURSIVE ValidateTokenNames(_, _)
ValidateTokenNames(names, input_keys) ==
    IF names = <<>> THEN Ok(<<>>)
    ELSE LET token_name == Head(names)
         IN  IF token_name = IMAGE_REFERENCE
             THEN ValidateTokenNames(Tail(names), input_keys)
             ELSE IF StartsWith(token_name, INPUTS_PREFIX)
             THEN IF AfterFirstDot(token_name) \notin input_keys
                  THEN Raise("ValidationError", <<E_UNDEFINED, token_name>>)
                  ELSE ValidateTokenNames(Tail(names), input_keys)
             ELSE Raise("ValidationError", <<E_UNSUPPORTED, token_name>>)

\* validate_command_tokens without the check of the placeholder names
ValidatePartNamesUnchecked(part, matches, input_keys) ==
    IF HasBraceMarker(part) /\ matches = <<>>
    THEN Raise("ValidationError", <<E_MALFORMED>>)
    ELSE Ok(<<>>)

\* Tool.validate_command_tokens for one argv token and its matches
ValidatePart(part, matches, input_keys) ==
    IF HasBraceMarker(part) /\ matches = <<>>
    THEN Raise("ValidationError", <<E_MALFORMED>>)
    ELSE ValidateTokenNames(matches, input_keys)

\* Tool.validate_command_tokens
ValidateCommandTokens(command, input_keys) ==
    FirstError([i \in DOMAIN command |->
                   ValidatePart(command[i], FindAll(command[i]), input_keys)])

\* the fields of a Tool, then its model validator
ValidateTool(tool, files) ==
    Bind(FirstError([i \in DOMAIN tool.inputs |->
                        ValidateToolInputs(tool.inputs[i].value, files)]),
         LAMBDA inputs :
             Bind(ValidateCommandTokens(tool.command, DictKeys(tool.inputs)),
                  LAMBDA checked : Ok(tool)))

E_UNIQUE == "Tool ids must be unique in config.tools."

E_UNKNOWN_TARGETS == "CLI mappings reference unknown tool ids"

\* validate_catalog without the uniqueness check
ValidateCatalogTargetsOnly(config) ==
    LET unique_tool_ids == {config.tools[i].id : i \in DOMAIN config.tools}
        unknown_targets == {i \in DOMAIN config.cli :
                                config.cli[i].value \notin unique_tool_ids}
    IN  IF unknown_targets # {}
        THEN Raise("ValidationError",
                   <<E_UNKNOWN_TARGETS, {config.cli[i] : i \in unknown_targets}>>)
        ELSE Ok(config)

\* Config.validate_catalog
ValidateCatalog(config) ==
    LET tool_ids == [i \in DOMAIN config.tools |-> config.tools[i].id]
        unique_tool_ids == {tool_ids[i] : i \in DOMAIN tool_ids}
        unknown_targets == {i \in DOMAIN config.cli :
                                config.cli[i].value \notin unique_tool_ids}
    IN  IF Cardinality(unique_tool_ids) # Len(tool_ids)
        THEN Raise("ValidationError", <<E_UNIQUE>>)
        ELSE IF unknown_targets # {}
        THEN Raise("ValidationError",
                   <<E_UNKNOWN_TARGETS, {config.cli[i] : i \in unknown_targets}>>)
        ELSE Ok(config)

E_MISSING_FIELDS == "Field required"

\* Manifest.from_dict: the payload validated into a Manifest (the class of
\* library/manifest.py; runner.py names it through library.schema)
ManifestFromDict(payload, files) ==
    IF payload.kind = "none" THEN Raise("ValidationError", <<E_MISSING_FIELDS>>)
    ELSE Bind(FirstError([i \in DOMAIN payload.config.tools |->
                             ValidateTool(payload.config.tools[i], files)]),
              LAMBDA tools :
                  Bind(ValidateCatalog([tools |-> tools, cli |-> payload.config.cli]),
                       LAMBDA config : Ok([build |-> payload.build, config |-> config])))

E_NOT_A_DICTIONARY == "Manifest must be a dictionary."

\* runner._load_manifest
LoadManifestFile(path, files, payload) ==
    IF path \notin files THEN Raise("FileNotFoundError", <<path>>)
    ELSE IF payload.kind = "list" THEN Raise("ValueError", <<E_NOT_A_DICTIONARY>>)
    ELSE ManifestFromDict(NormalizeInputSources(path, payload), files)

\* ---- resolve.for_command ----
E_UNKNOWN_COMMAND == "Unknown tool command mapping"

E_UNKNOWN_TOOL == "Unknown tool id"

E_DUPLICATE_TOOL == "Duplicate tool id found"

\* resolve.tool_id
ResolveToolId(command, cli) ==
    IF command \notin DictKeys(cli)
    THEN Raise("ValueError", <<E_UNKNOWN_COMMAND, command>>)
    ELSE Ok(DictGet(cli, command))

\* resolve.tool without the defense against duplicate ids
ResolveToolFirstMatch(tool_id, tools) ==
    LET matches == SelectSeq(tools, LAMBDA t : t.id = tool_id)
    IN  IF matches = <<>> THEN Raise("ValueError", <<E_UNKNOWN_TOOL, tool_id>>)
        ELSE Ok(matches[1])

\* resolve.tool
ResolveTool(tool_id, tools) ==
    LET matches == SelectSeq(tools, LAMBDA t : t.id = tool_id)
    IN  IF matches = <<>> THEN Raise("ValueError", <<E_UNKNOWN_TOOL, tool_id>>)
        ELSE IF Len(matches) > 1
        THEN Raise("ValueError", <<E_DUPLICATE_TOOL, tool_id>>)
        ELSE Ok(matches[1])

ForCommand(manifest, command) ==
    Bind(ResolveToolId(command, manifest.config.cli),
         LAMBDA resolved_id : ResolveTool(resolved_id, manifest.config.tools))

\* ---- workspace ----
IsLeap(year) == (year % 4 = 0 /\ year % 100 # 0) \/ year % 400 = 0

DaysInMonth(year, month) ==
    IF month = 2 THEN (IF IsLeap(year) THEN 29 ELSE 28)
    ELSE IF month \in {4, 6, 9, 11} THEN 30
    ELSE 31

\* the date one day later
NextDay(d) ==
    IF d.day < DaysInMonth(d.year, d.month) THEN [d EXCEPT !.day = d.day + 1]
    ELSE IF d.month < 12 THEN [d EXCEPT !.month = d.month + 1, !.day = 1]
    ELSE [d EXCEPT !.year = d.year + 1, !.month = 1, !.day = 1]

\* the date one day earlier
PrevDay(d) ==
    IF d.day > 1 THEN [d EXCEPT !.day = d.day - 1]
    ELSE IF d.month > 1
    THEN [d EXCEPT !.month = d.month - 1, !.day = DaysInMonth(d.year, d.month - 1)]
    ELSE [d EXCEPT !.year = d.year - 1, !.month = 12, !.day = 31]

\* the wall clock moved to the seconds of the day counted from its own
\* midnight: an offset is less than a day, so the date moves by a day at most
AtSecondOfDay(d, seconds) ==
    LET date == IF seconds < 0 THEN PrevDay(d)
                ELSE IF seconds >= 86400 THEN NextDay(d)
                ELSE d
        clock == seconds % 86400
    IN  [date EXCEPT !.hour = clock \div 3600,
                     !.minute = (clock % 3600) \div 60,
                     !.second = clock % 60]

\* run_time.astimezone(timezone.utc)
AsTimezoneUtc(run_time) ==
    [AtSecondOfDay(run_time,
                   run_time.hour * 3600 + run_time.minute * 60 + run_time.second
                       - The(run_time.tzinfo))
        EXCEPT !.tzinfo = Some(0)]

\* the decimal digits of n, zero-padded to width
RECURSIVE Digits(_, _)
Digits(n, width) ==
    IF width = 0 THEN <<>>
    ELSE Append(Digits(n \div 10, width - 1), ToString(n % 10))

RUN_TIME_FORMAT == <<"%Y", "%m", "%d", "T", "%H", "%M", "%S", "Z">>

\* one directive or literal of a strftime format
Directive(t, piece) ==
    CASE piece = "%Y" -> Digits(t.year, 4)
      [] piece = "%m" -> Digits(t.month, 2)
      [] piece = "%d" -> Digits(t.day, 2)
      [] piece = "%H" -> Digits(t.hour, 2)
      [] piece = "%M" -> Digits(t.minute, 2)
      [] piece = "%S" -> Digits(t.second, 2)
      [] OTHER -> <<piece>>

RECURSIVE Strftime(_, _)
Strftime(t, format) ==
    IF format = <<>> THEN <<>>
    ELSE Directive(t, Head(format)) \o Strftime(t, Tail(format))

\* the wall clock of the time formatted as it stands, whatever its zone
FormatWallClock(run_time) == Strftime(run_time, RUN_TIME_FORMAT)

\* workspace.format: the time as UTC, to the second; a naive time is read as UTC
Format(run_time) ==
    Strftime(IF run_time.tzinfo = None THEN [run_time EXCEPT !.tzinfo = Some(0)]
             ELSE AsTimezoneUtc(run_time),
             RUN_TIME_FORMAT)

\* a run directory that leaves the tool id out
RunDirWithoutToolId(root, tool_id, run_time) ==
    ResolvePath(root) \o <<OUTPUT_ROOT_DIRNAME, Format(run_time)>>

\* the directory workspace.create makes
RunDir(root, tool_id, run_time) ==
    ResolvePath(root) \o <<OUTPUT_ROOT_DIRNAME, tool_id, Format(run_time)>>

\* a create that makes no directory
CreatedNothing(root, run_dir) == {}

\* run_dir and the ancestors mkdir(parents=True) makes with it
Created(root, run_dir) ==
    {SubSeq(run_dir, 1, n) : n \in (Len(ResolvePath(root)) + 1)..Len(run_dir)}

\* mkdir without exist_ok: a directory that is there already is an error
MkdirExclusive(path, dirs, writable) ==
    IF path \in dirs THEN Raise("FileExistsError", <<path>>)
    ELSE IF ~writable THEN Raise("PermissionError", <<path>>)
    ELSE Ok(path)

\* path.mkdir(parents=True, exist_ok=True): a directory that is there already
\* is left as it is; a new one cannot be made where writing is not allowed
Mkdir(path, dirs, writable) ==
    IF path \in dirs THEN Ok(path)
    ELSE IF ~writable THEN Raise("PermissionError", <<path>>)
    ELSE Ok(path)

\* workspace.create
WorkspaceCreate(root, tool_id, run_time, dirs, writable) ==
    Mkdir(RunDir(root, tool_id, run_time), dirs, writable)

\* ---- defaults.input ----
E_DOCKERFILE == "Dockerfile from manifest does not exist"

\* the Dockerfile named by a manifest's build section, which must exist
DockerfileOf(path, build, files) ==
    LET dockerfile ==
            ResolvePath(IF IsAbsolute(build.file) THEN build.file
                        ELSE Join(Join(Parent(path), build.context), build.file))
    IN  IF dockerfile \notin files
        THEN Raise("ValueError", <<E_DOCKERFILE, dockerfile>>)
        ELSE Ok(dockerfile)

\* defaults._resolve_manifest_dockerfile
ResolveManifestDockerfile(path, files, payload) ==
    Bind(LoadManifestFile(ResolvePath(path), files, payload),
         LAMBDA manifest : DockerfileOf(path, manifest.build, files))

E_INPUT_KEY == "Input key not defined for tool"

E_NO_DEFAULT == "No packaged default input available for parser"

E_DEFAULT_MISSING == "Packaged default input not found"

\* the body of defaults.input
DefaultsInput(tool, input_key, manifest, files, payload) ==
    IF input_key \notin DictKeys(tool.inputs)
    THEN Raise("ValueError", <<E_INPUT_KEY, tool.id, input_key>>)
    ELSE IF input_key = KEY_DOCKERFILE
    THEN ResolveManifestDockerfile(manifest, files, payload)
    ELSE LET registered ==
                 IF input_key \in DOMAIN DEFAULT_INPUT_REGISTRY THEN Some(input_key)
                 ELSE IF tool.parser \in DOMAIN DEFAULT_INPUT_REGISTRY
                      THEN Some(tool.parser)
                      ELSE None
         IN  IF registered = None
             THEN Raise("ValueError", <<E_NO_DEFAULT, tool.parser>>)
             ELSE LET default_path == DEFAULT_INPUT_REGISTRY[The(registered)]
                  IN  IF default_path \notin files
                      THEN Raise("ValueError", <<E_DEFAULT_MISSING, default_path>>)
                      ELSE Ok(ResolvePath(default_path))

\* the parameters of defaults.input, none with a default value
DEFAULTS_INPUT_PARAMETERS == {"tool", "input_key", "manifest"}

E_MISSING_ARGUMENT == "missing required positional argument"

\* a call of defaults.input with keyword arguments: a parameter left without
\* an argument is a TypeError, raised before the body runs
CallDefaultsInput(kwargs, files, payload) ==
    IF DEFAULTS_INPUT_PARAMETERS \ DOMAIN kwargs # {}
    THEN Raise("TypeError",
               <<E_MISSING_ARGUMENT, DEFAULTS_INPUT_PARAMETERS \ DOMAIN kwargs>>)
    ELSE DefaultsInput(kwargs.tool, kwargs.input_key, kwargs.manifest, files, payload)

\* ---- runner._build_volumes ----
E_SOURCE_NOT_FOUND == "Input source file not found"

\* runner._resolve_input_source
ResolveInputSource(manifest, tool, input_key, input_config, files, payload) ==
    IF input_config.source = DEFAULT_SOURCE
    THEN CallDefaultsInput([tool |-> tool, input_key |-> input_key], files, payload)
    ELSE LET source_path ==
                 ResolvePath(Join(Parent(manifest), input_config.source))
         IN  IF source_path \notin files
             THEN Raise("ValueError", <<E_SOURCE_NOT_FOUND, source_path>>)
             ELSE Ok(source_path)

Binding(bind, mode) == [bind |-> bind, mode |-> mode]

\* the loop of _build_volumes from the i-th input on
RECURSIVE BindInputs(_, _, _, _, _, _)
BindInputs(volumes, i, manifest, tool, files, payload) ==
    IF i > Len(tool.inputs) THEN Ok(volumes)
    ELSE Bind(ResolveInputSource(manifest, tool, tool.inputs[i].key,
                                 tool.inputs[i].value, files, payload),
              LAMBDA source :
                  BindInputs(DictSet(volumes, source,
                                     Binding(tool.inputs[i].value.destination, "ro")),
                             i + 1, manifest, tool, files, payload))

\* runner._build_volumes
BuildVolumes(manifest, tool, output_dir, files, payload) ==
    Bind(BindInputs(<<Item(output_dir, Binding(CONTAINER_OUTPUTS_PATH, "rw"))>>,
                    1, manifest, tool, files, payload),
         LAMBDA volumes :
             Ok(IF tool.socket
                THEN DictSet(volumes, DOCKER_SOCKET_KEY, Binding(DOCKER_SOCKET_PATH, "rw"))
                ELSE volumes))

\* ---- runtime.run, as run sees it ----
ContainerResult(stdout, stderr, exit_code) ==
    [stdout |-> stdout, stderr |-> stderr, exit_code |-> exit_code]

MaxExitCode == 2

ExitCodes == 0..MaxExitCode

\* what the adapter hands back when it returns
ContainerResults ==
    {ContainerResult(out, err, code) :
        out \in {"", "out"}, err \in {"", "err"}, code \in ExitCodes}

\* what it raises when the engine fails
E_ENGINE == "DockerException"

\* ---- the result of run ----
E_OUTPUT_NOT_FOUND == "Tool output directory not found"

E_NOT_A_DIRECTORY == "Path does not point to a directory"

\* ToolRunResult(...) raising when the container exit code is not zero
ToolRunResultCheckedExit(tool, output, exit_code, stdout, stderr, dirs) ==
    IF output \notin dirs THEN Raise("ValidationError", <<E_NOT_A_DIRECTORY>>)
    ELSE IF exit_code # 0 THEN Raise("RuntimeError", <<exit_code>>)
    ELSE Ok([tool |-> tool, output |-> output, exit_code |-> exit_code,
             stdout |-> stdout, stderr |-> stderr])

\* ToolRunResult(...): output is validated as an existing directory
ToolRunResult(tool, output, exit_code, stdout, stderr, dirs) ==
    IF output \notin dirs THEN Raise("ValidationError", <<E_NOT_A_DIRECTORY>>)
    ELSE Ok([tool |-> tool, output |-> output, exit_code |-> exit_code,
             stdout |-> stdout, stderr |-> stderr])

\* ---- run, one action per step ----
RUN_ORDER ==
    <<"load", "resolve", "workspace", "render", "volumes", "invoke", "verify", "return">>

RunInit ==
    /\ run_context \in RunContexts
    /\ fs_payload \in Payloads
    /\ fs_files \in {PackagedFiles \cup present : present \in SUBSET {MANIFEST_FILE, CFG_FILE}}
    /\ fs_dirs = {}
    /\ fs_writable \in BOOLEAN
    /\ run_pc = "load"
    /\ run_steps = <<>>
    /\ run_manifest_path = None
    /\ run_manifest = NotCalled
    /\ run_tool = NotCalled
    /\ run_output_dir = NotCalled
    /\ run_command = NotCalled
    /\ run_volumes = NotCalled
    /\ run_result = NotCalled
    /\ run_checked = NotCalled
    /\ run_outcome = NotCalled
    /\ run_invocations = 0

\* a retry of the container where run has none
AfterStepRetry(name, res, next) ==
    IF res.ok THEN next
    ELSE IF name = "invoke" /\ run_invocations = 0 THEN "invoke" ELSE "raised"

\* where run is after a step: no step of run is inside a try, so an error of
\* a step leaves run
AfterStep(name, res, next) == IF res.ok THEN next ELSE "raised"

\* what run has handed to its caller after a step: the step's error as
\* raised, or the value of the return statement
Outcome(name, res) ==
    IF ~res.ok \/ name = "return" THEN res ELSE run_outcome

Step(name, res, next) ==
    /\ run_steps' = Append(run_steps, name)
    /\ run_pc' = AfterStep(name, res, next)
    /\ run_outcome' = Outcome(name, res)

\* manifest_path = context.manifest.resolve(); manifest = _load_manifest(manifest_path)
LoadManifest ==
    /\ run_pc = "load"
    /\ run_manifest_path' =
           IF run_context.manifest = None THEN None
           ELSE Some(ResolvePath(The(run_context.manifest)))
    /\ run_manifest' =
           IF run_manifest_path' = None THEN Raise("AttributeError", <<"resolve">>)
           ELSE LoadManifestFile(The(run_manifest_path'), fs_files, fs_payload)
    /\ Step("load", run_manifest', "resolve")
    /\ UNCHANGED <<run_context, run_tool, run_output_dir, run_command, run_volumes,
                   run_result, run_checked, run_invocations>>
    /\ UNCHANGED <<fs_files, fs_dirs, fs_payload, fs_writable>>
    /\ UNCHANGED nonRunVars

\* tool = resolve.for_command(manifest=manifest, command=context.command)
ResolveForCommand ==
    /\ run_pc = "resolve"
    /\ run_tool' = ForCommand(run_manifest.val, run_context.command)
    /\ Step("resolve", run_tool', "workspace")
    /\ UNCHANGED <<run_context, run_manifest_path, run_manifest, run_output_dir,
                   run_command, run_volumes, run_result, run_checked, run_invocations>>
    /\ UNCHANGED <<fs_files, fs_dirs, fs_payload, fs_writable>>
    /\ UNCHANGED nonRunVars

\* output_dir = workspace.create(root=manifest_path.parent, tool_id=tool.id, ...)
CreateWorkspace ==
    /\ run_pc = "workspace"
    /\ run_output_dir' =
           WorkspaceCreate(Parent(The(run_manifest_path)), run_tool.val.id,
                           run_context.time, fs_dirs, fs_writable)
    /\ fs_dirs' =
           IF run_output_dir'.ok
           THEN fs_dirs \cup Created(Parent(The(run_manifest_path)), run_output_dir'.val)
           ELSE fs_dirs
    /\ Step("workspace", run_output_dir', "render")
    /\ UNCHANGED <<run_context, run_manifest_path, run_manifest, run_tool,
                   run_command, run_volumes, run_result, run_checked, run_invocations>>
    /\ UNCHANGED <<fs_files, fs_payload, fs_writable>>
    /\ UNCHANGED nonRunVars

\* command = render.command(tool.command, inputs=tool.inputs, image_reference=context.image)
RenderToolCommand ==
    /\ run_pc = "render"
    /\ run_command' =
           RenderCommand(run_tool.val.command, AsMapping(run_tool.val.inputs),
                         run_context.image)
    /\ Step("render", run_command', "volumes")
    /\ UNCHANGED <<run_context, run_manifest_path, run_manifest, run_tool,
                   run_output_dir, run_volumes, run_result, run_checked, run_invocations>>
    /\ UNCHANGED <<fs_files, fs_dirs, fs_payload, fs_writable>>
    /\ UNCHANGED nonRunVars

\* volumes=_build_volumes(manifest=manifest_path, tool=tool, output_dir=output_dir)
BuildVolumeMap ==
    /\ run_pc = "volumes"
    /\ run_volumes' =
           BuildVolumes(The(run_manifest_path), run_tool.val, run_output_dir.val,
                        fs_files, fs_payload)
    /\ Step("volumes", run_volumes', "invoke")
    /\ UNCHANGED <<run_context, run_manifest_path, run_manifest, run_tool,
                   run_output_dir, run_command, run_result, run_checked, run_invocations>>
    /\ UNCHANGED <<fs_files, fs_dirs, fs_payload, fs_writable>>
    /\ UNCHANGED nonRunVars

\* result = runtime.run(tool.image, command, volumes=..., environment=tool.env, ...):
\* the adapter returns a ContainerResult or raises, and the container may
\* have removed the directory mounted at its outputs path
InvokeContainer ==
    /\ run_pc = "invoke"
    /\ \E removed \in BOOLEAN :
           fs_dirs' = IF removed THEN fs_dirs \ {run_output_dir.val} ELSE fs_dirs
    /\ \/ \E reported \in ContainerResults : run_result' = Ok(reported)
       \/ run_result' = Raise(E_ENGINE, <<run_tool.val.image>>)
    /\ Step("invoke", run_result', "verify")
    /\ run_invocations' = run_invocations + 1
    /\ UNCHANGED <<run_context, run_manifest_path, run_manifest, run_tool,
                   run_output_dir, run_command, run_volumes, run_checked>>
    /\ UNCHANGED <<fs_files, fs_payload, fs_writable>>
    /\ UNCHANGED nonRunVars

\* if not output_dir.is_dir(): raise ValueError(...)
VerifyWorkspace ==
    /\ run_pc = "verify"
    /\ run_checked' =
           IF run_output_dir.val \notin fs_dirs
           THEN Raise("ValueError", <<E_OUTPUT_NOT_FOUND, run_output_dir.val>>)
           ELSE Ok(run_output_dir.val)
    /\ Step("verify", run_checked', "return")
    /\ UNCHANGED <<run_context, run_manifest_path, run_manifest, run_tool,
                   run_output_dir, run_command, run_volumes, run_result, run_invocations>>
    /\ UNCHANGED <<fs_files, fs_dirs, fs_payload, fs_writable>>
    /\ UNCHANGED nonRunVars

\* return ToolRunResult(tool=tool.id, output=output_dir, exit_code=result.exit_code, ...)
ReturnResult ==
    /\ run_pc = "return"
    /\ Step("return",
            ToolRunResult(run_tool.val.id, run_output_dir.val, run_result.val.exit_code,
                          run_result.val.stdout, run_result.val.stderr, fs_dirs),
            "returned")
    /\ UNCHANGED <<run_context, run_manifest_path, run_manifest, run_tool,
                   run_output_dir, run_command, run_volumes, run_result, run_checked,
                   run_invocations>>
    /\ UNCHANGED <<fs_files, fs_dirs, fs_payload, fs_writable>>
    /\ UNCHANGED nonRunVars

RunNext ==
    \/ LoadManifest
    \/ ResolveForCommand
    \/ CreateWorkspace
    \/ RenderToolCommand
    \/ BuildVolumeMap
    \/ InvokeContainer
    \/ VerifyWorkspace
    \/ ReturnResult

RunIdle ==
    /\ run_context = ToolRunContext(None, "", <<>>, DateTime(1, 1, 1, 0, 0, 0, 0, None), None, None)
    /\ fs_payload = Payload("none", <<>>, <<>>)
    /\ fs_files = {}
    /\ fs_dirs = {}
    /\ fs_writable = FALSE
    /\ run_pc = "idle"
    /\ run_steps = <<>>
    /\ run_manifest_path = None
    /\ run_manifest = NotCalled
    /\ run_tool = NotCalled
    /\ run_output_dir = NotCalled
    /\ run_command = NotCalled
    /\ run_volumes = NotCalled
    /\ run_result = NotCalled
    /\ run_checked = NotCalled
    /\ run_outcome = NotCalled
    /\ run_invocations = 0

(***************************************************************************)
(* Specifications of one call: a function of the core applied to           *)
(* arguments drawn from a bounded set.                                     *)
(***************************************************************************)
FnIdle ==
    /\ fn_pc = "idle"
    /\ fn_args = <<>>
    /\ fn_out = NotCalled

\* the call returns or raises
Returns(res) ==
    /\ fn_pc = "call"
    /\ fn_out' = res
    /\ fn_pc' = "done"
    /\ UNCHANGED fn_args
    /\ UNCHANGED nonFnVars

\* ---- ResolveSpec: resolve.for_command ----
MaxTools == 3

\* two tools with the same id and one with another
ToolPool ==
    { Tool("a", KEY_TRIVY, TOOL_IMAGE, << <<"-", "v">> >>, <<>>, FALSE),
      Tool("a", KEY_HADOLINT, TOOL_IMAGE, << <<"-", "v">> >>, <<>>, TRUE),
      Tool("b", KEY_TRIVY, TOOL_IMAGE, << <<"-", "v">> >>, <<>>, FALSE) }

RECURSIVE ToolLists(_)
ToolLists(n) ==
    IF n = 0 THEN {<<>>}
    ELSE LET shorter == ToolLists(n - 1)
         IN  shorter \cup {Append(tools, t) : tools \in shorter, t \in ToolPool}

ResolveClis ==
    { <<>>,
      <<Item("x", "a")>>,
      <<Item("x", "a"), Item("y", "b")>>,
      <<Item("x", "c"), Item("y", "a")>> }

ResolveCommands == {"x", "y", "z"}

ResolveInit ==
    /\ fn_pc = "call"
    /\ fn_args \in [command : ResolveCommands, cli : ResolveClis,
                     tools : ToolLists(MaxTools)]
    /\ fn_out = NotCalled

\* resolve.for_command(manifest=manifest, command=command)
CallForCommand ==
    Returns(ForCommand([config |-> [tools |-> fn_args.tools, cli |-> fn_args.cli]],
                       fn_args.command))

ResolveNext == CallForCommand

\* ---- ValidateSpec: Tool.validate_command_tokens ----
\* the commands of the renderer, and a well-formed placeholder followed by
\* a closing marker of its own
ValidateCommands ==
    RenderCommands
        \cup { << OPEN \o INPUTS_PREFIX \o KEY_A \o CLOSE \o <<" ">> \o CLOSE >> }

ValidateInputKeys == { {}, {KEY_A}, {KEY_A, KEY_B} }

ValidateInit ==
    /\ fn_pc = "call"
    /\ fn_args \in [command : ValidateCommands, input_keys : ValidateInputKeys]
    /\ fn_out = NotCalled

\* the model validator of a Tool with this command and these inputs
CallValidateCommandTokens ==
    Returns(ValidateCommandTokens(fn_args.command, fn_args.input_keys))

ValidateNext == CallValidateCommandTokens

\* ---- InputSpec: the host file of one declared input ----
PARSER_CURATE == <<"c", "u", "r", "a", "t", "e">>

InputParsers == {KEY_HADOLINT, KEY_TRIVY, PARSER_CURATE}

InputKeys == {KEY_HADOLINT, KEY_RENOVATE, KEY_CFG, KEY_DOCKERFILE}

InputSources == {DEFAULT_SOURCE, <<"cfg.yaml">>}

\* a tool that declares one input
InputTools ==
    { Tool("t", parser, TOOL_IMAGE, << <<"-", "v">> >>,
           << Item(key, ToolInput(source, <<"/", "c">>)) >>, FALSE) :
        parser \in InputParsers, key \in InputKeys, source \in InputSources }

DOCKERFILE == <<"/", "m", "Dockerfile">>

ABSOLUTE_DOCKERFILE == <<"/", "d", "Dockerfile">>

\* the file system: the input file of the manifest directory, with or without
\* the manifest, the Dockerfiles and the packaged assets
InputFiles ==
    { {CFG_FILE} \cup present \cup packaged :
        present \in SUBSET {MANIFEST_FILE, DOCKERFILE, ABSOLUTE_DOCKERFILE},
        packaged \in {PackagedFiles, PackagedFiles \ {HADOLINT_CONFIG_PATH}} }

\* manifests whose build section names the Dockerfile relative to the
\* context, through a context of its own, and absolutely
InputPayloads ==
    { Payload("dict", <<T_PLAIN>>, <<Item("plain", "plain")>>),
      [Payload("dict", <<T_PLAIN>>, <<Item("plain", "plain")>>)
          EXCEPT !.build = Build(<<"..", "d">>, <<"Dockerfile">>)],
      [Payload("dict", <<T_PLAIN>>, <<Item("plain", "plain")>>)
          EXCEPT !.build = Build(<<"ctx">>, ABSOLUTE_DOCKERFILE)] }

InputInit ==
    /\ fn_pc = "call"
    /\ fn_args \in [tool : InputTools, manifest : {MANIFEST_FILE},
                     files : InputFiles, payload : InputPayloads,
                     caller : {"_build_volumes", "direct"}]
    /\ fn_out = NotCalled

\* _resolve_input_source(manifest=..., tool=..., input_key=..., input_config=...)
\* as _build_volumes calls it for the input of the tool
CallResolveInputSource ==
    /\ fn_args.caller = "_build_volumes"
    /\ Returns(ResolveInputSource(fn_args.manifest, fn_args.tool,
                                  fn_args.tool.inputs[1].key,
                                  fn_args.tool.inputs[1].value,
                                  fn_args.files, fn_args.payload))

\* defaults.input(tool=..., input_key=..., manifest=...) called with all of
\* its parameters
CallInput ==
    /\ fn_args.caller = "direct"
    /\ Returns(CallDefaultsInput([tool |-> fn_args.tool,
                                  input_key |-> fn_args.tool.inputs[1].key,
                                  manifest |-> fn_args.manifest],
                                 fn_args.files, fn_args.payload))

InputNext == CallResolveInputSource \/ CallInput

\* ---- NormalizeSpec: the source of one input, normalized as at manifest
\* load up to MaxPasses times, then resolved as for the volume map ----
MaxPasses == 2

NormalizeManifests == { MANIFEST_FILE, <<"/", "w", "manifest.yaml">>, <<"/", "manifest.yaml">> }

NormalizeSources ==
    { DEFAULT_SOURCE,
      <<"cfg.yaml">>,
      <<".", "cfg.yaml">>,
      <<"..", "m", "cfg.yaml">>,
      <<"sub", "..", "cfg.yaml">>,
      <<"missing.yaml">>,
      CFG_FILE,
      <<"/", "m", "..", "m", "cfg.yaml">>,
      <<"/", "m", "missing.yaml">> }

NormalizeFiles == SUBSET {CFG_FILE, <<"/", "w", "cfg.yaml">>, <<"/", "cfg.yaml">>}

\* the tool the input belongs to
NormalizeTools(input_data) ==
    Tool("t", KEY_TRIVY, TOOL_IMAGE, << <<"-", "v">> >>,
         << Item(KEY_CFG, input_data) >>, FALSE)

NormalizeInit ==
    /\ fn_pc = "call"
    /\ fn_args \in [manifest : NormalizeManifests, source : NormalizeSources,
                     files : NormalizeFiles]
    /\ fn_out = Ok(<< ToolInput(fn_args.source, <<"/", "c">>) >>)

\* _normalize_input_sources(path, payload) on the payload as it is now
CallNormalizeInputSources ==
    /\ fn_pc = "call"
    /\ Len(fn_out.val) <= MaxPasses
    /\ fn_out' =
           Ok(Append(fn_out.val,
                     NormalizeInput(fn_args.manifest, fn_out.val[Len(fn_out.val)])))
    /\ UNCHANGED <<fn_pc, fn_args>>
    /\ UNCHANGED nonFnVars

\* _resolve_input_source(manifest=..., input_config=...) for the input as it
\* was read and as it is after each normalization
CallResolveEach ==
    /\ fn_pc = "call"
    /\ fn_pc' = "done"
    /\ fn_out' =
           Ok([inputs |-> fn_out.val,
               resolved |->
                   [i \in DOMAIN fn_out.val |->
                       ResolveInputSource(fn_args.manifest,
                                          NormalizeTools(fn_out.val[i]), KEY_CFG,
                                          fn_out.val[i], fn_args.files,
                                          Payload("dict", <<>>, <<>>))]])
    /\ UNCHANGED fn_args
    /\ UNCHANGED nonFnVars

NormalizeNext == CallNormalizeInputSources \/ CallResolveEach

(***************************************************************************)
(* WorkspaceSpec: workspace.create called up to MaxCalls times by one      *)
(* caller on one file system.                                              *)
(***************************************************************************)
MaxCalls == 2

WorkspaceRoots == { <<"/", "m">>, <<".">> }

WorkspaceToolIds == { "default-scanner", "default-linter" }

\* one UTC second written in four ways, the second after it, and times whose
\* UTC date is another day, month or year than their wall-clock date
WorkspaceTimes ==
    { DateTime(2026, 2, 18, 20, 0, 0, 0, None),
      DateTime(2026, 2, 18, 20, 0, 0, 999999, Some(0)),
      DateTime(2026, 2, 18, 21, 0, 0, 0, Some(3600)),
      DateTime(2026, 2, 19, 1, 30, 0, 500000, Some(19800)),
      DateTime(2026, 2, 18, 20, 0, 1, 0, None),
      DateTime(2024, 3, 1, 0, 30, 0, 0, Some(3600)),
      DateTime(2024, 2, 29, 23, 30, 0, 0, None),
      DateTime(2025, 12, 31, 23, 0, 0, 0, Some(0 - 7200)) }

NoRuns == <<>>

IsolationIdle ==
    /\ iso_pc = NoRuns
    /\ iso_ctx = NoRuns
    /\ iso_dir = NoRuns
    /\ iso_outputs = {}

WorkspaceIdle ==
    /\ ws_dirs = {}
    /\ ws_writable = FALSE
    /\ ws_calls = <<>>
    /\ IsolationIdle

WorkspaceInit ==
    /\ ws_dirs = {}
    /\ ws_writable \in BOOLEAN
    /\ ws_calls = <<>>
    /\ IsolationIdle

CreateCall(root, tool_id, run_time, out) ==
    [root |-> root, tool_id |-> tool_id, run_time |-> run_time, out |-> out]

\* output_dir = workspace.create(root=..., tool_id=..., run_time=...)
CallCreate ==
    /\ Len(ws_calls) < MaxCalls
    /\ \E root \in WorkspaceRoots, tool_id \in WorkspaceToolIds,
          run_time \in WorkspaceTimes :
           ws_calls' =
               Append(ws_calls,
                      CreateCall(root, tool_id, run_time,
                                 WorkspaceCreate(root, tool_id, run_time,
                                                 ws_dirs, ws_writable)))
    /\ ws_dirs' =
           IF ws_calls'[Len(ws_calls')].out.ok
           THEN ws_dirs \cup Created(ws_calls'[Len(ws_calls')].root,
                                     ws_calls'[Len(ws_calls')].out.val)
           ELSE ws_dirs
    /\ UNCHANGED <<ws_writable, iso_pc, iso_ctx, iso_dir, iso_outputs>>
    /\ UNCHANGED nonWorkspaceVars

WorkspaceNext == CallCreate

(***************************************************************************)
(* IsolationSpec: MaxRuns runs under way at once, as independent processes *)
(* on one file system.  Of runner.run it keeps the steps that touch the    *)
(* workspace: workspace.create, the container writing under the directory  *)
(* mounted at its outputs path, the return.                                *)
(***************************************************************************)
MaxRuns == 2

Runs == 1..MaxRuns

IsolationTimes ==
    { DateTime(2026, 2, 18, 20, 0, 0, 0, None),
      DateTime(2026, 2, 18, 21, 0, 0, 250000, Some(3600)),
      DateTime(2026, 2, 18, 20, 0, 1, 0, None) }

IsolationContexts ==
    [root : WorkspaceRoots, tool_id : WorkspaceToolIds, time : IsolationTimes]

IsolationInit ==
    /\ ws_dirs = {}
    /\ ws_writable \in BOOLEAN
    /\ ws_calls = <<>>
    /\ iso_pc = [r \in Runs |-> "workspace"]
    /\ iso_ctx \in [Runs -> IsolationContexts]
    /\ iso_dir = [r \in Runs |-> NotCalled]
    /\ iso_outputs = {}

\* output_dir = workspace.create(root=manifest_path.parent, tool_id=tool.id,
\*                               run_time=context.time)
RunCreatesWorkspace(r) ==
    /\ iso_pc[r] = "workspace"
    /\ iso_dir' =
           [iso_dir EXCEPT ![r] =
               WorkspaceCreate(iso_ctx[r].root, iso_ctx[r].tool_id, iso_ctx[r].time,
                               ws_dirs, ws_writable)]
    /\ ws_dirs' =
           IF iso_dir'[r].ok
           THEN ws_dirs \cup Created(iso_ctx[r].root, iso_dir'[r].val)
           ELSE ws_dirs
    /\ iso_pc' = [iso_pc EXCEPT ![r] = IF iso_dir'[r].ok THEN "invoke" ELSE "raised"]
    /\ UNCHANGED <<ws_writable, ws_calls, iso_ctx, iso_outputs>>
    /\ UNCHANGED nonWorkspaceVars

\* runtime.run(..., volumes={output_dir: CONTAINER_OUTPUTS_PATH rw, ...}): the
\* tool writes its outputs under the mounted directory
ContainerWritesOutputs(r) ==
    /\ iso_pc[r] = "invoke"
    /\ iso_outputs' = iso_outputs \cup {[dir |-> iso_dir[r].val, writer |-> r]}
    /\ iso_pc' = [iso_pc EXCEPT ![r] = "return"]
    /\ UNCHANGED <<ws_dirs, ws_writable, ws_calls, iso_ctx, iso_dir>>
    /\ UNCHANGED nonWorkspaceVars

\* return ToolRunResult(..., output=output_dir, ...)
RunReturns(r) ==
    /\ iso_pc[r] = "return"
    /\ iso_pc' = [iso_pc EXCEPT ![r] = "returned"]
    /\ UNCHANGED <<ws_dirs, ws_writable, ws_calls, iso_ctx, iso_dir, iso_outputs>>
    /\ UNCHANGED nonWorkspaceVars

IsolationNext ==
    \E r \in Runs :
        \/ RunCreatesWorkspace(r)
        \/ ContainerWritesOutputs(r)
        \/ RunReturns(r)

(***************************************************************************)
(* AdapterSpec: runtime.run, the container runtime adapter, next to the    *)
(* container it runs.  The container writes chunks to its two streams and  *)
(* exits, or hangs; every call of the engine may fail.                     *)
(***************************************************************************)
MaxChunks == 2

DOCKER_EXCEPTION == "DockerException"

REMOVED == "removed"

\* what container.remove(force=True) can do: remove, or raise the engine's error
RemoveOutcomes == {REMOVED, DOCKER_EXCEPTION}

NoContainer == [state |-> "none", log |-> <<>>, status |-> None]

\* stdout = "", stderr = "", exit_code = 1, streamed = False
RunLocals ==
    [opened |-> FALSE, read |-> 0, stdout |-> <<>>, stderr |-> <<>>,
     exit_code |-> 1, streamed |-> FALSE]

AdapterIdle ==
    /\ ad_pc = "idle"
    /\ ad_env = <<>>
    /\ ad_container = <<>>
    /\ ad_locals = <<>>
    /\ ad_error = None
    /\ ad_removals = <<>>
    /\ ad_out = NotCalled

AdapterInit ==
    /\ ad_pc = "create"
    /\ ad_env \in [stream_output : BOOLEAN, demux : BOOLEAN, hangs : BOOLEAN]
    /\ ad_container = NoContainer
    /\ ad_locals = RunLocals
    /\ ad_error = None
    /\ ad_removals = <<>>
    /\ ad_out = NotCalled

\* the chunks of one stream, in the order they were written
StreamOf(log, stream) == SelectSeq(log, LAMBDA chunk : chunk = stream)

\* int(result.get("StatusCode", 1))
WaitForContainer(container) ==
    IF container.status = None THEN 1 ELSE The(container.status)

\* the exception that leaves _remove_container, if any: only DockerException
\* is caught
RemoveContainerUnguarded(outcome) ==
    IF outcome = REMOVED THEN None ELSE Some(Raise(outcome, <<"remove">>))

RemoveContainerSafely(outcome) ==
    IF outcome \in {REMOVED, DOCKER_EXCEPTION}
    THEN None
    ELSE Some(Raise(outcome, <<"remove">>))

\* an exception raised inside the try block: the finally block runs next
Unwind(err) ==
    /\ ad_error' = Some(err)
    /\ ad_pc' = "remove"

\* get_client() and _create_container(...), before the try block
CreateContainer ==
    /\ ad_pc = "create"
    /\ \/ /\ ad_container' = [ad_container EXCEPT !.state = "created"]
          /\ ad_pc' = "start"
          /\ UNCHANGED ad_out
       \/ /\ ad_out' = Raise(DOCKER_EXCEPTION, <<"create">>)
          /\ ad_pc' = "raised"
          /\ UNCHANGED ad_container
    /\ UNCHANGED <<ad_env, ad_locals, ad_error, ad_removals>>
    /\ UNCHANGED nonAdapterVars

\* container.start()
StartContainer ==
    /\ ad_pc = "start"
    /\ \/ /\ ad_container' = [ad_container EXCEPT !.state = "running"]
          /\ ad_pc' = "demux"
          /\ UNCHANGED ad_error
       \/ /\ Unwind(Raise(DOCKER_EXCEPTION, <<"start">>))
          /\ UNCHANGED ad_container
    /\ UNCHANGED <<ad_env, ad_locals, ad_removals, ad_out>>
    /\ UNCHANGED nonAdapterVars

\* _collect_logs_demux: container.logs(stream=True, follow=True, demux=True);
\* an SDK without demux raises TypeError, which run catches to fall back
OpenDemuxLogs ==
    /\ ad_pc = "demux"
    /\ IF ad_env.demux
       THEN /\ ad_locals' = [ad_locals EXCEPT !.opened = TRUE]
            /\ ad_pc' = "demux_read"
       ELSE /\ ad_pc' = IF ad_env.stream_output THEN "raw" ELSE "fallback_wait"
            /\ UNCHANGED ad_locals
    /\ UNCHANGED <<ad_env, ad_container, ad_error, ad_removals, ad_out>>
    /\ UNCHANGED nonAdapterVars

\* one turn of the loop over log_stream
ReadDemuxChunk ==
    /\ ad_pc = "demux_read"
    /\ ad_locals.read < Len(ad_container.log)
    /\ LET chunk == ad_container.log[ad_locals.read + 1] IN
        ad_locals' =
            [ad_locals EXCEPT
                !.read = @ + 1,
                !.stdout = IF chunk = "stdout" THEN Append(@, chunk) ELSE @,
                !.stderr = IF chunk = "stderr" THEN Append(@, chunk) ELSE @]
    /\ UNCHANGED <<ad_pc, ad_env, ad_container, ad_error, ad_removals, ad_out>>
    /\ UNCHANGED nonAdapterVars

\* a stream that ended as soon as nothing was left to read
StreamEndedWhenDrained == ad_locals.read = Len(ad_container.log)

\* a followed log stream ends when the container has exited and all it wrote
\* has been read
StreamEnded ==
    /\ ad_container.state = "exited"
    /\ ad_locals.read = Len(ad_container.log)

EndDemuxLogs ==
    /\ ad_pc = "demux_read"
    /\ StreamEnded
    /\ ad_pc' = "wait"
    /\ UNCHANGED <<ad_env, ad_container, ad_locals, ad_error, ad_removals, ad_out>>
    /\ UNCHANGED nonAdapterVars

\* exit_code = _wait_for_container(container); streamed = stream_output
WaitAfterDemux ==
    /\ ad_pc = "wait"
    /\ ad_container.state = "exited"
    /\ ad_locals' =
        [ad_locals EXCEPT
            !.exit_code = WaitForContainer(ad_container),
            !.streamed = ad_env.stream_output]
    /\ ad_pc' = "remove"
    /\ UNCHANGED <<ad_env, ad_container, ad_error, ad_removals, ad_out>>
    /\ UNCHANGED nonAdapterVars

\* _collect_logs_fallback, stream_output: _stream_raw_logs opens the stream
StreamRawLogs ==
    /\ ad_pc = "raw"
    /\ ad_locals' = [ad_locals EXCEPT !.opened = TRUE]
    /\ ad_pc' = "raw_read"
    /\ UNCHANGED <<ad_env, ad_container, ad_error, ad_removals, ad_out>>
    /\ UNCHANGED nonAdapterVars

\* one turn of the loop over raw_stream: the chunk is printed, not kept
ReadRawChunk ==
    /\ ad_pc = "raw_read"
    /\ ad_locals.read < Len(ad_container.log)
    /\ ad_locals' = [ad_locals EXCEPT !.read = @ + 1]
    /\ UNCHANGED <<ad_pc, ad_env, ad_container, ad_error, ad_removals, ad_out>>
    /\ UNCHANGED nonAdapterVars

EndRawLogs ==
    /\ ad_pc = "raw_read"
    /\ StreamEnded
    /\ ad_locals' = [ad_locals EXCEPT !.streamed = TRUE]
    /\ ad_pc' = "fallback_wait"
    /\ UNCHANGED <<ad_env, ad_container, ad_error, ad_removals, ad_out>>
    /\ UNCHANGED nonAdapterVars

\* _collect_logs_fallback: exit_code = _wait_for_container(container)
WaitInFallback ==
    /\ ad_pc = "fallback_wait"
    /\ ad_container.state = "exited"
    /\ ad_locals' = [ad_locals EXCEPT !.exit_code = WaitForContainer(ad_container)]
    /\ ad_pc' = "fallback_logs"
    /\ UNCHANGED <<ad_env, ad_container, ad_error, ad_removals, ad_out>>
    /\ UNCHANGED nonAdapterVars

\* _collect_logs_fallback: container.logs(stream=False, ...) for each stream
ReadFallbackLogs ==
    /\ ad_pc = "fallback_logs"
    /\ ad_locals' =
        [ad_locals EXCEPT
            !.opened = TRUE,
            !.stdout = StreamOf(ad_container.log, "stdout"),
            !.stderr = StreamOf(ad_container.log, "stderr")]
    /\ ad_pc' = "remove"
    /\ UNCHANGED <<ad_env, ad_container, ad_error, ad_removals, ad_out>>
    /\ UNCHANGED nonAdapterVars

\* the steps of the try block after container.start()
AfterStart ==
    {"demux", "demux_read", "wait", "raw", "raw_read", "fallback_wait", "fallback_logs"}

\* a call of the engine inside the try block raises DockerException
EngineCallFails ==
    /\ ad_pc \in AfterStart
    /\ Unwind(Raise(DOCKER_EXCEPTION, <<ad_pc>>))
    /\ UNCHANGED <<ad_env, ad_container, ad_locals, ad_removals, ad_out>>
    /\ UNCHANGED nonAdapterVars

\* finally: _remove_container(container); then the pending exception, if any,
\* goes on to the caller
RemoveContainer ==
    /\ ad_pc = "remove"
    /\ \E outcome \in RemoveOutcomes :
        /\ ad_removals' = Append(ad_removals, outcome)
        /\ ad_container' =
            IF outcome = REMOVED
            THEN [ad_container EXCEPT !.state = REMOVED]
            ELSE ad_container
        /\ IF RemoveContainerSafely(outcome) # None
           THEN /\ ad_out' = The(RemoveContainerSafely(outcome))
                /\ ad_pc' = "raised"
           ELSE IF ad_error # None
           THEN /\ ad_out' = The(ad_error)
                /\ ad_pc' = "raised"
           ELSE /\ ad_pc' = "finish"
                /\ UNCHANGED ad_out
    /\ UNCHANGED <<ad_env, ad_locals, ad_error>>
    /\ UNCHANGED nonAdapterVars

\* _emit_container_finish(...); return ContainerResult(...)
ReturnContainerResult ==
    /\ ad_pc = "finish"
    /\ ad_out' =
        Ok(ContainerResult(ad_locals.stdout, ad_locals.stderr, ad_locals.exit_code))
    /\ ad_pc' = "returned"
    /\ UNCHANGED <<ad_env, ad_container, ad_locals, ad_error, ad_removals>>
    /\ UNCHANGED nonAdapterVars

\* the container writes a chunk to one of its streams
ContainerWrites ==
    /\ ad_container.state = "running"
    /\ Len(ad_container.log) < MaxChunks
    /\ \E stream \in {"stdout", "stderr"} :
        ad_container' = [ad_container EXCEPT !.log = Append(@, stream)]
    /\ UNCHANGED <<ad_pc, ad_env, ad_locals, ad_error, ad_removals, ad_out>>
    /\ UNCHANGED nonAdapterVars

\* the container's process ends
ContainerExits ==
    /\ ad_container.state = "running"
    /\ ~ad_env.hangs
    /\ \E code \in ExitCodes :
        ad_container' = [ad_container EXCEPT !.state = "exited", !.status = Some(code)]
    /\ UNCHANGED <<ad_pc, ad_env, ad_locals, ad_error, ad_removals, ad_out>>
    /\ UNCHANGED nonAdapterVars

\* the steps of runtime.run that no failure of the engine is needed for
AdapterStep ==
    \/ CreateContainer
    \/ StartContainer
    \/ OpenDemuxLogs
    \/ ReadDemuxChunk
    \/ EndDemuxLogs
    \/ WaitAfterDemux
    \/ StreamRawLogs
    \/ ReadRawChunk
    \/ EndRawLogs
    \/ WaitInFallback
    \/ ReadFallbackLogs
    \/ RemoveContainer
    \/ ReturnContainerResult

AdapterNext ==
    \/ AdapterStep
    \/ EngineCallFails
    \/ ContainerWrites
    \/ ContainerExits

(***************************************************************************)
(* CliSpec: one invocation of a tool-backed subcommand of the command line *)
(* (lint, scan, refurbish), from the call of dispatch to the exit code of  *)
(* the process.  What dispatch does is an input: it completes with the     *)
(* container's exit code, or raises.                                       *)
(***************************************************************************)
CLI_COMMANDS == {"lint", "scan", "refurbish"}

\* ValueError is what manifest resolution raises; the others stand for any
\* other exception
DispatchKinds == {"completes", "ValueError", "TypeError", "AttributeError"}

\* the process is started through main() or through the Typer application cli
CliEntries == {"main", "cli"}

CliInit ==
    /\ fn_pc = "call"
    /\ fn_args \in
        [command : CLI_COMMANDS, entry : CliEntries, dispatch : DispatchKinds,
         exit_code : ExitCodes, jsonify : BOOLEAN]
    /\ fn_out = NotCalled

\* dispatch.run_tool_command(...) / dispatch.run_scan_command(...)
Dispatched(args) ==
    IF args.dispatch = "completes"
    THEN Ok([result |-> [exit_code |-> args.exit_code], payload |-> <<>>])
    ELSE Raise(args.dispatch, <<>>)

\* raise typer.Exit(code)
TyperExit(code) == Raise("Exit", <<code>>)

\* lint: no exception of dispatch is caught
Linter(dispatched) ==
    IF dispatched.ok THEN TyperExit(dispatched.val.result.exit_code) ELSE dispatched

\* scan: except ValueError -> typer.Exit(2)
Scanner(dispatched) ==
    IF dispatched.ok THEN TyperExit(dispatched.val.result.exit_code)
    ELSE IF dispatched.err = "ValueError" THEN TyperExit(2)
    ELSE dispatched

\* refurbish: no exception of dispatch is caught
Refurbisher(dispatched) ==
    IF dispatched.ok THEN TyperExit(dispatched.val.result.exit_code) ELSE dispatched

Subcommand(args) ==
    CASE args.command = "lint" -> Linter(Dispatched(args))
      [] args.command = "scan" -> Scanner(Dispatched(args))
      [] args.command = "refurbish" -> Refurbisher(Dispatched(args))

\* cli(): the application turns typer.Exit into SystemExit with its code and
\* lets any other exception through
Standalone(raised) ==
    IF raised.err = "Exit" THEN Raise("SystemExit", raised.msg) ELSE raised

\* main(): try: cli() except Exception: print; SystemExit is not an Exception
Main(raised) ==
    IF raised.err = "SystemExit" THEN raised ELSE Ok(None)

\* the interpreter: the code of SystemExit, 1 for an exception nobody caught,
\* 0 when the entry point returned
ProcessExitCode(outcome) ==
    IF outcome.ok THEN 0
    ELSE IF outcome.err = "SystemExit" THEN outcome.msg[1]
    ELSE 1

\* the subcommand's function runs
RunSubcommand ==
    /\ fn_pc = "call"
    /\ fn_out' = Subcommand(fn_args)
    /\ fn_pc' = "cli"
    /\ UNCHANGED fn_args
    /\ UNCHANGED nonFnVars

\* what left the subcommand goes through cli()
LeaveCli ==
    /\ fn_pc = "cli"
    /\ fn_out' = Standalone(fn_out)
    /\ fn_pc' = IF fn_args.entry = "main" THEN "main" ELSE "exit"
    /\ UNCHANGED fn_args
    /\ UNCHANGED nonFnVars

\* what left cli() goes through main()
LeaveMain ==
    /\ fn_pc = "main"
    /\ fn_out' = Main(fn_out)
    /\ fn_pc' = "exit"
    /\ UNCHANGED fn_args
    /\ UNCHANGED nonFnVars

\* the process ends
ProcessExits ==
    /\ fn_pc = "exit"
    /\ fn_out' = Ok(ProcessExitCode(fn_out))
    /\ fn_pc' = "done"
    /\ UNCHANGED fn_args
    /\ UNCHANGED nonFnVars

CliNext ==
    \/ RunSubcommand
    \/ LeaveCli
    \/ LeaveMain
    \/ ProcessExits

(***************************************************************************)
(* ToolInputSpec: a ToolInputs model is constructed, and its destination   *)
(* assigned again afterwards (validate_assignment).                        *)
(***************************************************************************)
\* "/c", "/", "c", "./c", "c/", " /c" and the empty string
Destinations ==
    { <<"/", "c">>, <<"/">>, <<"c">>, <<".", "/", "c">>, <<"c", "/">>,
      <<" ", "/", "c">>, <<>> }

\* the field's default, used when the data names no destination
DEFAULT_DESTINATION ==
    <<"/", "c", "o", "n", "f", "i", "g", ".", "y", "a", "m", "l">>

ToolInputSources == {DEFAULT_SOURCE, CFG_FILE, <<"/", "w", "gone.yaml">>}

ToolInputInit ==
    /\ fn_pc = "call"
    /\ fn_args \in
        [source : ToolInputSources,
         destination : {None} \cup {Some(d) : d \in Destinations},
         files : SUBSET {CFG_FILE, MANIFEST_FILE}]
    /\ fn_out = NotCalled

\* ToolInputs(**data): a destination left out takes the default, unvalidated
ConstructToolInputs(data, files) ==
    IF data.destination = None
    THEN Bind(ValidateToolInputs(ToolInput(data.source, <<"/">>), files),
              LAMBDA v : Ok(ToolInput(v.source, DEFAULT_DESTINATION)))
    ELSE ValidateToolInputs(ToolInput(data.source, The(data.destination)), files)

CallToolInputs == Returns(ConstructToolInputs(fn_args, fn_args.files))

\* input.destination = value on a constructed model: the validator runs again,
\* and a rejected value leaves the model as it was
AssignDestination ==
    /\ fn_pc = "done"
    /\ fn_out.ok
    /\ \E value \in Destinations :
        fn_out' =
            Bind(ValidateToolInputs(ToolInput(DEFAULT_SOURCE, value), {}),
                 LAMBDA v : Ok(ToolInput(fn_out.val.source, value)))
    /\ fn_out'.ok
    /\ UNCHANGED <<fn_pc, fn_args>>
    /\ UNCHANGED nonFnVars

ToolInputNext ==
    \/ CallToolInputs
    \/ AssignDestination

(***************************************************************************)
(* AgreeSpec: a Tool is validated and, when it passed, its command is      *)
(* rendered with its own inputs and some image reference.                  *)
(***************************************************************************)
AgreeInit ==
    /\ fn_pc = "call"
    /\ fn_args \in
        [command : ValidateCommands, inputs : RenderInputs,
         image_reference : RenderImages]
    /\ fn_out = NotCalled

\* Tool(...): the model validator runs on the command and the input keys
ValidateBeforeRender ==
    /\ fn_pc = "call"
    /\ fn_out' = ValidateCommandTokens(fn_args.command, DOMAIN fn_args.inputs)
    /\ fn_pc' = IF fn_out'.ok THEN "validated" ELSE "done"
    /\ UNCHANGED fn_args
    /\ UNCHANGED nonFnVars

\* render.command(tool.command, inputs=tool.inputs, image_reference=...)
RenderValidated ==
    /\ fn_pc = "validated"
    /\ fn_out' = RenderCommand(fn_args.command, fn_args.inputs, fn_args.image_reference)
    /\ fn_pc' = "done"
    /\ UNCHANGED fn_args
    /\ UNCHANGED nonFnVars

AgreeNext ==
    \/ ValidateBeforeRender
    \/ RenderValidated

(***************************************************************************)
(* DispatchSpec: dispatch.run_tool_command for a validated tool, from the  *)
(* run of its container to the parsed payload.                             *)
(***************************************************************************)
PARSER_PROVENANCE == <<"p", "r", "o", "v", "e", "n", "a", "n", "c", "e">>

PARSER_PUSH == <<"p", "u", "s", "h">>

\* Tool.parser: Literal["hadolint", "trivy", "renovate", "curate", "provenance", "push"]
TOOL_PARSERS ==
    {KEY_HADOLINT, KEY_TRIVY, KEY_RENOVATE, PARSER_CURATE, PARSER_PROVENANCE, PARSER_PUSH}

\* parsers.registry()
PARSER_REGISTRY == {KEY_HADOLINT, KEY_TRIVY, KEY_RENOVATE}

E_UNKNOWN_PARSER == "Unknown parser"

E_NO_ARTIFACTS == "produced no output artifacts"

DispatchInit ==
    /\ fn_pc = "call"
    /\ fn_args \in
        [parser : TOOL_PARSERS, command : CLI_COMMANDS, run : {"completes", "raises"},
         exit_code : ExitCodes, stdout : {"", "out"}, artifacts : BOOLEAN]
    /\ fn_out = NotCalled

\* parsers.get(parser)
GetParser(parser) ==
    IF parser \notin PARSER_REGISTRY
    THEN Raise("ValueError", <<E_UNKNOWN_PARSER, parser>>)
    ELSE Ok(parser)

\* _ensure_artifacts: hadolint and renovate need an artifact or some stdout to
\* write one from; the other parsers are not looked at
EnsureArtifacts(parser, artifacts, stdout) ==
    IF parser \in {KEY_HADOLINT, KEY_RENOVATE} /\ ~artifacts /\ stdout = ""
    THEN Raise("ValueError", <<E_NO_ARTIFACTS, parser>>)
    ELSE Ok(parser)

\* effective_manifest, for_command, docker.pull and run_tool: the container runs
\* and run_tool returns its result, or one of them raises
DispatchRunsTool ==
    /\ fn_pc = "call"
    /\ fn_out' =
        IF fn_args.run = "completes"
        THEN Ok([exit_code |-> fn_args.exit_code, stdout |-> fn_args.stdout])
        ELSE Raise("ValueError", <<"run">>)
    /\ fn_pc' = IF fn_out'.ok THEN "artifacts" ELSE "done"
    /\ UNCHANGED fn_args
    /\ UNCHANGED nonFnVars

\* _ensure_artifacts(tool.parser, Path(result.output), result.stdout)
DispatchEnsuresArtifacts ==
    /\ fn_pc = "artifacts"
    /\ fn_out' =
        Bind(EnsureArtifacts(fn_args.parser, fn_args.artifacts, fn_out.val.stdout),
             LAMBDA parser : fn_out)
    /\ fn_pc' = IF fn_out'.ok THEN "parser" ELSE "done"
    /\ UNCHANGED fn_args
    /\ UNCHANGED nonFnVars

\* parser = get_parser(tool.parser); parse, report, return ToolDispatchResult
DispatchParses ==
    /\ fn_pc = "parser"
    /\ fn_out' =
        Bind(GetParser(fn_args.parser),
             LAMBDA parser :
                 Ok([command |-> fn_args.command, parser |-> parser,
                     exit_code |-> fn_out.val.exit_code]))
    /\ fn_pc' = "done"
    /\ UNCHANGED fn_args
    /\ UNCHANGED nonFnVars

DispatchNext ==
    \/ DispatchRunsTool
    \/ DispatchEnsuresArtifacts
    \/ DispatchParses

(***************************************************************************)
(* Specifications.  Each one runs one component; the variables of the      *)
(* others rest.                                                            *)
(***************************************************************************)
vars == <<renderVars, catalogVars, runVars, fnVars, workspaceVars, adapterVars>>

RenderSpecInit ==
    RenderInit /\ CatalogIdle /\ RunIdle /\ FnIdle /\ WorkspaceIdle /\ AdapterIdle

RenderSpec == RenderSpecInit /\ [][RenderNext]_vars

CatalogSpecInit ==
    CatalogInit /\ RenderIdle /\ RunIdle /\ FnIdle /\ WorkspaceIdle /\ AdapterIdle

CatalogSpec == CatalogSpecInit /\ [][CatalogNext]_vars

RunSpecInit ==
    RunInit /\ RenderIdle /\ CatalogIdle /\ FnIdle /\ WorkspaceIdle /\ AdapterIdle

RunSpec == RunSpecInit /\ [][RunNext]_vars

OthersIdle == RenderIdle /\ CatalogIdle /\ RunIdle /\ AdapterIdle

ResolveSpecInit == ResolveInit /\ OthersIdle /\ WorkspaceIdle

ResolveSpec == ResolveSpecInit /\ [][ResolveNext]_vars

ValidateSpecInit == ValidateInit /\ OthersIdle /\ WorkspaceIdle

ValidateSpec == ValidateSpecInit /\ [][ValidateNext]_vars

InputSpecInit == InputInit /\ OthersIdle /\ WorkspaceIdle

InputSpec == InputSpecInit /\ [][InputNext]_vars

NormalizeSpecInit == NormalizeInit /\ OthersIdle /\ WorkspaceIdle

NormalizeSpec == NormalizeSpecInit /\ [][NormalizeNext]_vars

WorkspaceSpecInit == WorkspaceInit /\ OthersIdle /\ FnIdle

WorkspaceSpec == WorkspaceSpecInit /\ [][WorkspaceNext]_vars

IsolationSpecInit == IsolationInit /\ OthersIdle /\ FnIdle

IsolationSpec == IsolationSpecInit /\ [][IsolationNext]_vars

ToolInputSpecInit == ToolInputInit /\ OthersIdle /\ WorkspaceIdle

ToolInputSpec == ToolInputSpecInit /\ [][ToolInputNext]_vars

AgreeSpecInit == AgreeInit /\ OthersIdle /\ WorkspaceIdle

AgreeSpec == AgreeSpecInit /\ [][AgreeNext]_vars

DispatchSpecInit == DispatchInit /\ OthersIdle /\ WorkspaceIdle

DispatchSpec == DispatchSpecInit /\ [][DispatchNext]_vars

CliSpecInit == CliInit /\ OthersIdle /\ WorkspaceIdle

CliSpec == CliSpecInit /\ [][CliNext]_vars

AdapterSpecInit ==
    AdapterInit /\ RenderIdle /\ CatalogIdle /\ RunIdle /\ FnIdle /\ WorkspaceIdle

AdapterSpec == AdapterSpecInit /\ [][AdapterNext]_vars

\* runtime.run is one thread that always takes its next step when it can, and a
\* container that does not hang ends
AdapterLiveSpec ==
    /\ AdapterSpecInit
    /\ [][AdapterNext]_vars
    /\ WF_vars(AdapterStep)
    /\ WF_vars(ContainerExits)

(***************************************************************************)
(* Placeholders stated on their own, as a language over positions, without *)
(* the scanning of the matcher: s[i..j] is a placeholder when it is "{{",  *)
(* white space, a non-empty name, white space, "}}".                       *)
(***************************************************************************)
IsPlaceholderSpan(s, i, j) ==
    /\ 1 <= i /\ j <= Len(s) /\ j - i >= 4
    /\ s[i] = "{" /\ s[i + 1] = "{" /\ s[j - 1] = "}" /\ s[j] = "}"
    /\ \E a \in (i + 2)..(j - 2) : \E b \in a..(j - 2) :
          /\ \A k \in (i + 2)..(a - 1) : s[k] \in WhiteSpace
          /\ \A k \in a..b : s[k] \in NameChar
          /\ \A k \in (b + 1)..(j - 2) : s[k] \in WhiteSpace

IsNameChar(c) == c \in NameChar

SpanName(s, i, j) == SelectSeq(SubSeq(s, i + 2, j - 2), IsNameChar)

SpanEnds(s, i) == {j \in 1..Len(s) : IsPlaceholderSpan(s, i, j)}

PlaceholderNames(s) ==
    {SpanName(s, sp[1], sp[2]) :
        sp \in {q \in (1..Len(s)) \X (1..Len(s)) : IsPlaceholderSpan(s, q[1], q[2])}}

\* the name is image.reference or inputs.<key> with <key> declared
Recognized(name, inputs) ==
    \/ name = IMAGE_REFERENCE
    \/ \E k \in DOMAIN inputs : name = INPUTS_PREFIX \o k

ExpectedValue(name, inputs, image_reference) ==
    IF name = IMAGE_REFERENCE THEN image_reference
    ELSE inputs[CHOOSE k \in DOMAIN inputs : name = INPUTS_PREFIX \o k].destination

\* the token with every placeholder replaced by its value, read off the spans
RECURSIVE ExpectedFrom(_, _, _, _)
ExpectedFrom(s, p, inputs, image_reference) ==
    IF p > Len(s) THEN <<>>
    ELSE IF SpanEnds(s, p) = {}
         THEN <<s[p]>> \o ExpectedFrom(s, p + 1, inputs, image_reference)
         ELSE LET j == CHOOSE e \in SpanEnds(s, p) : TRUE
              IN  ExpectedValue(SpanName(s, p, j), inputs, image_reference)
                      \o ExpectedFrom(s, j + 1, inputs, image_reference)

RenderDone == r_pc = "done"

RenderReturned == r_pc = "done" /\ r_out.ok

\* C4: whenever render.command returns, no token of the returned argv holds
\* "{{" or "}}", whatever the image reference and the destinations hold; and a
\* token with a brace marker but no well-formed placeholder makes it fail.
C4_NoBraceMarkerReturned ==
    /\ RenderReturned =>
          \A i \in 1..Len(r_out.val) : ~HasBraceMarker(r_out.val[i])
    /\ RenderDone =>
          ((\E i \in 1..Len(r_cmd) :
                HasBraceMarker(r_cmd[i]) /\ PlaceholderNames(r_cmd[i]) = {})
             => ~r_out.ok)

\* a command with a placeholder was rendered and returned
C4_Witness ==
    /\ RenderReturned
    /\ \E i \in 1..Len(r_cmd) : HasBraceMarker(r_cmd[i])
    /\ \E k \in DOMAIN r_inputs : HasBraceMarker(r_inputs[k].destination)

\* C5: the returned argv has the length and order of the command; every
\* placeholder is replaced by the declared input's destination or by the image
\* reference, white space inside the braces ignored; a token without "{{" is
\* returned unchanged.
C5_RenderSubstitutes ==
    RenderReturned =>
        /\ Len(r_out.val) = Len(r_cmd)
        /\ \A i \in 1..Len(r_cmd) :
              /\ \A n \in PlaceholderNames(r_cmd[i]) : Recognized(n, r_inputs)
              /\ r_out.val[i] = ExpectedFrom(r_cmd[i], 1, r_inputs, r_image)
              /\ ~Contains(r_cmd[i], OPEN) => r_out.val[i] = r_cmd[i]

\* two tokens returned, one rewritten from a placeholder written with white
\* space, the other a literal returned as it was
C5_Witness ==
    /\ RenderReturned
    /\ Len(r_cmd) = 2
    /\ r_cmd[1] = LIT_V /\ r_out.val[1] = LIT_V
    /\ INPUTS_PREFIX \o KEY_B \in PlaceholderNames(r_cmd[2])
    /\ r_out.val[2] # r_cmd[2]

\* C6: render.command fails whenever some token holds a placeholder naming an
\* undeclared input or a name other than image.reference / inputs.<key>.
C6_UnknownNameFails ==
    RenderDone =>
        ((\E i \in 1..Len(r_cmd) : \E n \in PlaceholderNames(r_cmd[i]) :
              ~Recognized(n, r_inputs))
           => ~r_out.ok)

\* an undeclared input was referenced and render raised the undefined-input error
C6_Witness ==
    /\ RenderDone
    /\ ~r_out.ok
    /\ Len(r_out.msg) = 2
    /\ r_out.msg[1] = E_UNDEFINED
    /\ r_out.msg[2] = INPUTS_PREFIX \o KEY_B

(***************************************************************************)
(* Contents of heap objects, for comparing a copy with its original.       *)
(***************************************************************************)
ToolContentAt(H, ref) ==
    [H.tools[ref] EXCEPT !.inputs = H.inputs[H.tools[ref].inputs]]

ListContentAt(H, l) == [i \in 1..Len(H.lists[l]) |-> ToolContentAt(H, H.lists[l][i])]

ConfigContentAt(H, config) ==
    [tools |-> ListContentAt(H, config.tools), cli |-> H.clis[config.cli]]

\* the Config as it was constructed
ConfigAsConstructed == ConfigContentAt(InitHeap(c_case), c_config)

\* the packaged defaults of defaults.py as they were at import
DefaultToolsAtImport ==
    [i \in 1..3 |-> ToolContentAt(InitHeap(c_case), i)]

BothNonEmpty == c_case.tools # <<>> /\ DOMAIN c_case.cli # {}

BothEmpty == c_case.tools = <<>> /\ DOMAIN c_case.cli = {}

ExactlyOneNonEmpty == (c_case.tools # <<>>) # (DOMAIN c_case.cli # {})

Words(msg) == {msg[i] : i \in 1..Len(msg)}

\* the call that returned last, with nothing mutated since
FreshCall(h) == c_fresh /\ h = Len(c_handed)

\* C7: with tools and cli both non-empty, catalog.resolve returns source
\* "manifest" with the config's content in objects of its own: whatever is
\* done to returned catalogs, the config keeps its content and a later
\* resolve(config) returns that content again.
C7_ManifestCatalogIsIndependentCopy ==
    BothNonEmpty =>
        /\ ConfigContentAt(Heap, c_config) = ConfigAsConstructed
        /\ \A h \in 1..Len(c_handed) :
              c_handed[h].call = "resolve" =>
                 /\ c_handed[h].res.ok
                 /\ c_handed[h].res.val.source = "manifest"
                 /\ FreshCall(h) =>
                       ConfigContentAt(Heap, c_handed[h].res.val) = ConfigAsConstructed

\* a returned catalog was mutated and a later resolve(config) has returned
C7_Witness ==
    /\ BothNonEmpty
    /\ Len(c_handed) >= 2
    /\ c_handed[1].call = "resolve"
    /\ ConfigContentAt(Heap, c_handed[1].res.val).tools # ConfigAsConstructed.tools
    /\ c_handed[Len(c_handed)].call = "resolve"
    /\ c_fresh

\* C8: with exactly one of tools / cli non-empty, catalog.resolve raises a
\* configuration error whose message names config.tools and config.cli.
C8_PartialOverrideRejected ==
    ExactlyOneNonEmpty =>
        \A h \in 1..Len(c_handed) :
            c_handed[h].call = "resolve" =>
               /\ ~c_handed[h].res.ok
               /\ c_handed[h].res.err = "ValueError"
               /\ {"config.tools", "config.cli"} \subseteq Words(c_handed[h].res.msg)

\* resolve was called on a tools-only Config and on a cli-only Config
C8_Witness ==
    /\ ExactlyOneNonEmpty
    /\ c_case.tools # <<>>
    /\ c_handed # <<>>
    /\ c_handed[Len(c_handed)].call = "resolve"
    /\ ~c_handed[Len(c_handed)].res.ok

\* C9: with tools and cli both empty, catalog.resolve returns source
\* "default" with a cli mapping lint, scan and refurbish and at least the
\* three tools these map to.
C9_EmptyConfigResolvesToDefaults ==
    BothEmpty =>
        \A h \in 1..Len(c_handed) :
            c_handed[h].call = "resolve" =>
               /\ c_handed[h].res.ok
               /\ c_handed[h].res.val.source = "default"
               /\ FreshCall(h) =>
                     /\ {"lint", "scan", "refurbish"}
                            \subseteq DOMAIN c_clis[c_handed[h].res.val.cli]
                     /\ Len(c_lists[c_handed[h].res.val.tools]) >= 3

\* the default constructors of defaults.py return the defaults as they were
\* at import, whatever was done to what earlier calls returned
DefaultConstructorsFresh ==
    /\ [i \in 1..3 |-> ToolContentAt(Heap, i)] = DefaultToolsAtImport
    /\ c_clis[REF_DEFAULT_CLI] = DEFAULT_CLI
    /\ \A h \in 1..Len(c_handed) :
          c_handed[h].call \in {"default_tools", "default_cli", "default_config"} =>
             /\ c_handed[h].res.ok
             /\ (FreshCall(h) /\ c_handed[h].res.val.tools # 0) =>
                   ListContentAt(Heap, c_handed[h].res.val.tools) = DefaultToolsAtImport
             /\ (FreshCall(h) /\ c_handed[h].res.val.cli # 0) =>
                   c_clis[c_handed[h].res.val.cli] = DEFAULT_CLI

\* C10: every call that hands out defaults (catalog.resolve on an empty
\* config, default_tools, default_cli, default_config) returns a fresh copy
\* of the original defaults, after any calls and mutations of earlier results.
C10_DefaultsHandedOutFresh ==
    /\ DefaultConstructorsFresh
    /\ BothEmpty =>
          \A h \in 1..Len(c_handed) :
              c_handed[h].call = "resolve" =>
                 /\ c_handed[h].res.ok
                 /\ FreshCall(h) =>
                       /\ ListContentAt(Heap, c_handed[h].res.val.tools)
                              = DefaultToolsAtImport
                       /\ c_clis[c_handed[h].res.val.cli] = DEFAULT_CLI


(***************************************************************************)
(* Properties of runner.run.                                               *)
(***************************************************************************)
IsPrefix(s, t) == Len(s) <= Len(t) /\ s = SubSeq(t, 1, Len(s))

\* what the named step produced
StepResult(name) ==
    CASE name = "load" -> run_manifest
      [] name = "resolve" -> run_tool
      [] name = "workspace" -> run_output_dir
      [] name = "render" -> run_command
      [] name = "volumes" -> run_volumes
      [] name = "invoke" -> run_result
      [] name = "verify" -> run_checked
      [] name = "return" -> run_outcome

RunEnded == run_pc \in {"returned", "raised"}

\* the steps taken are the first steps of the order, each but the last one
\* succeeded, and no step after them has produced anything
StepsInOrder ==
    /\ IsPrefix(run_steps, RUN_ORDER)
    /\ \A i \in 1..(Len(run_steps) - 1) : StepResult(run_steps[i]).ok
    /\ \A i \in (Len(run_steps) + 1)..(Len(RUN_ORDER) - 1) :
          StepResult(RUN_ORDER[i]).err = "NotCalled"

\* a failed step ends the run with that step's error and without a result
FailFast ==
    /\ run_pc = "raised" =>
          /\ run_steps # <<>>
          /\ ~StepResult(run_steps[Len(run_steps)]).ok
          /\ run_outcome = StepResult(run_steps[Len(run_steps)])
          /\ run_outcome.err # "NotCalled"
    /\ run_outcome.ok <=> run_pc = "returned"
    /\ run_pc = "returned" => run_steps = RUN_ORDER
    /\ ~RunEnded => run_outcome.err = "NotCalled"

\* the container runtime is called at most once, after the five steps before it
InvokedOnce ==
    /\ run_invocations <= 1
    /\ run_invocations = Cardinality({i \in DOMAIN run_steps : run_steps[i] = "invoke"})
    /\ run_invocations = 1 =>
          \A i \in 1..5 : i <= Len(run_steps) /\ StepResult(RUN_ORDER[i]).ok

\* once run has raised or returned nothing more happens
NothingAfterTheEnd == RunEnded => UNCHANGED runVars

\* C1: a run takes its steps in the order load, resolve, workspace, render,
\* volumes, invoke, verify, return; a failing step ends the run with that
\* step's error, no later step and no result; the container runtime is
\* called at most once and only after all earlier steps succeeded.
C1_StepsInOrderFailFast ==
    /\ [](StepsInOrder /\ FailFast /\ InvokedOnce)
    /\ [][NothingAfterTheEnd]_vars

\* the render step failed: the workspace exists, the container was not run
C1_Witness ==
    /\ run_pc = "raised"
    /\ run_steps = SubSeq(RUN_ORDER, 1, 4)
    /\ run_outcome.err = "ValueError"
    /\ run_output_dir.ok
    /\ run_invocations = 0

\* C2: once the container has finished, run returns a ToolRunResult exactly
\* when the workspace directory still exists and raises otherwise; the
\* result holds the tool's id, the workspace directory and the exit code,
\* stdout and stderr of the adapter's ContainerResult, whatever the exit code.
C2_ResultIffWorkspaceExists ==
    /\ (run_result.ok /\ RunEnded) =>
          /\ run_outcome.ok <=> run_output_dir.val \in fs_dirs
          /\ ~run_outcome.ok => run_outcome.err = "ValueError"
    /\ run_outcome.ok =>
          run_outcome.val =
              [tool |-> run_tool.val.id,
               output |-> run_output_dir.val,
               exit_code |-> run_result.val.exit_code,
               stdout |-> run_result.val.stdout,
               stderr |-> run_result.val.stderr]

\* run returned the result of a container that exited with a non-zero code
C2_Witness ==
    /\ run_pc = "returned"
    /\ run_outcome.val.exit_code # 0
    /\ run_outcome.val.stderr = "err"
    /\ run_outcome.val.output \in fs_dirs

\* the host file a declared input stands for
HostFileOf(input_key, input_config) ==
    IF input_config.source = DEFAULT_SOURCE
    THEN DefaultsInput(run_tool.val, input_key, The(run_manifest_path),
                       fs_files, fs_payload).val
    ELSE ResolvePath(Join(Parent(The(run_manifest_path)), input_config.source))

\* the volume map binds host at bind with the mode
Bound(host, bind, mode) ==
    \E i \in DOMAIN run_volumes.val :
        run_volumes.val[i] = Item(host, Binding(bind, mode))

WorkspaceBound == Bound(run_output_dir.val, CONTAINER_OUTPUTS_PATH, "rw")

SocketBoundIffDeclared ==
    /\ run_tool.val.socket <=> DOCKER_SOCKET_KEY \in DictKeys(run_volumes.val)
    /\ run_tool.val.socket => Bound(DOCKER_SOCKET_KEY, DOCKER_SOCKET_PATH, "rw")

\* the volume map handed to the container binds the workspace, the socket
\* if and only if declared, and each host file of an input at the
\* destination of the last declared input that stands for this file
VolumeMapOneBindingPerHostFile ==
    run_invocations > 0 =>
       LET inputs == run_tool.val.inputs
           host(i) == HostFileOf(inputs[i].key, inputs[i].value)
       IN  /\ WorkspaceBound
           /\ SocketBoundIffDeclared
           /\ \A i \in DOMAIN inputs :
                 (\A j \in DOMAIN inputs : host(j) = host(i) => j <= i) =>
                     Bound(host(i), inputs[i].value.destination, "ro")
           /\ Len(run_volumes.val)
                  = 1 + Cardinality({host(i) : i \in DOMAIN inputs})
                      + (IF run_tool.val.socket THEN 1 ELSE 0)

\* C3: the volume map handed to the container binds the workspace
\* read-write at the outputs path, EVERY declared input's host file
\* read-only at that input's own destination (also when two inputs stand
\* for the same host file), and the socket read-write if and only if
\* tool.socket is true.
C3_VolumeMapBindsEveryInput ==
    run_invocations > 0 =>
       /\ WorkspaceBound
       /\ SocketBoundIffDeclared
       /\ \A i \in DOMAIN run_tool.val.inputs :
             Bound(HostFileOf(run_tool.val.inputs[i].key, run_tool.val.inputs[i].value),
                   run_tool.val.inputs[i].value.destination, "ro")


(***************************************************************************)
(* Properties of command resolution inside run.                            *)
(***************************************************************************)
\* run has read a manifest file that holds a mapping
ManifestRead ==
    /\ run_steps # <<>>
    /\ run_manifest_path # None
    /\ The(run_manifest_path) \in fs_files
    /\ fs_payload.kind = "dict"

SuppliesTools == fs_payload.config.tools # <<>>

SuppliesCli == fs_payload.config.cli # <<>>

\* run is past its resolve step, or has ended before it
ResolveSettled == RunEnded \/ Len(run_steps) >= 2

\* C11: a run against a manifest with neither config.tools nor config.cli
\* resolves the command to the packaged default tool of that command; with
\* both it resolves within the manifest's own tools; with exactly one it
\* fails before a workspace or a container is created.
C11_RunResolvesThroughCatalog ==
    (ManifestRead /\ ResolveSettled) =>
       /\ (~SuppliesTools /\ ~SuppliesCli
              /\ run_context.command \in DOMAIN DEFAULT_CLI) =>
             /\ run_tool.ok
             /\ run_tool.val.id = DEFAULT_CLI[run_context.command]
       /\ (SuppliesTools /\ SuppliesCli /\ run_tool.ok) =>
             \E i \in DOMAIN run_manifest.val.config.tools :
                 run_tool.val = run_manifest.val.config.tools[i]
       /\ (SuppliesTools # SuppliesCli) =>
             /\ ~run_tool.ok
             /\ RunEnded => (run_pc = "raised" /\ fs_dirs = {} /\ run_invocations = 0)

\* what holds instead: run resolves in the manifest's own config only, and
\* an empty config maps no command
RunResolvesInManifestOnly ==
    (ManifestRead /\ ResolveSettled) =>
       /\ run_tool.ok =>
             /\ run_manifest.ok
             /\ \E i \in DOMAIN run_manifest.val.config.tools :
                    run_tool.val = run_manifest.val.config.tools[i]
             /\ run_tool.val.id = DictGet(fs_payload.config.cli, run_context.command)
       /\ ~SuppliesCli => ~run_tool.ok
       /\ ~run_tool.ok =>
             (RunEnded => (run_pc = "raised" /\ fs_dirs = {} /\ run_invocations = 0))


\* the positions of the tools whose id the command is mapped to
MappedMatches ==
    IF fn_args.command \notin DictKeys(fn_args.cli) THEN {}
    ELSE {i \in DOMAIN fn_args.tools :
              fn_args.tools[i].id = DictGet(fn_args.cli, fn_args.command)}

\* C12: for_command returns the one tool whose id is cli[command]; it
\* raises, and returns no tool, when the command is not mapped, when no tool
\* has the mapped id and when more than one tool has it.
C12_ForCommandReturnsTheOneTool ==
    fn_pc = "done" =>
       IF Cardinality(MappedMatches) = 1
       THEN /\ fn_out.ok
            /\ \A i \in MappedMatches : fn_out.val = fn_args.tools[i]
       ELSE /\ ~fn_out.ok
            /\ fn_out.err = "ValueError"
            /\ fn_out.val = NoValue

\* the mapped id is the id of two tools, and for_command raised
C12_Witness ==
    /\ fn_pc = "done"
    /\ Cardinality(MappedMatches) = 2
    /\ fn_out.msg = <<E_DUPLICATE_TOOL, "a">>


\* two tools of the manifest file have the same id
DuplicateToolIds ==
    \E i, j \in DOMAIN fs_payload.config.tools :
        i # j /\ fs_payload.config.tools[i].id = fs_payload.config.tools[j].id

\* the command -> id pairs of the manifest file whose id no tool has
UnknownCliTargets ==
    {fs_payload.config.cli[i] : i \in
        {k \in DOMAIN fs_payload.config.cli :
            \A t \in DOMAIN fs_payload.config.tools :
                fs_payload.config.tools[t].id # fs_payload.config.cli[k].value}}

\* every tool of the manifest file passes the validation of a Tool
EveryToolValid ==
    FirstError([i \in DOMAIN fs_payload.config.tools |->
                   ValidateTool(NormalizeInputSources(The(run_manifest_path),
                                                      fs_payload).config.tools[i],
                                fs_files)]).ok

\* C13: a run on a manifest with duplicate tool ids, or with a cli mapping to
\* an id no tool has, fails in the load step and never creates a workspace
\* or starts a container; when its tools are valid one by one the error is
\* "must be unique", or "unknown tool ids" with the offending pairs.
C13_InvalidCatalogFailsAtLoad ==
    (ManifestRead /\ (DuplicateToolIds \/ UnknownCliTargets # {})) =>
       /\ run_steps = <<"load">>
       /\ run_pc = "raised"
       /\ ~run_manifest.ok
       /\ run_manifest.err = "ValidationError"
       /\ run_outcome = run_manifest
       /\ fs_dirs = {}
       /\ run_invocations = 0
       /\ EveryToolValid =>
              run_manifest.msg =
                  IF DuplicateToolIds THEN <<E_UNIQUE>>
                  ELSE <<E_UNKNOWN_TARGETS, UnknownCliTargets>>

\* a manifest that maps a command to an id no tool has was read
C13_Witness ==
    /\ ManifestRead
    /\ ~DuplicateToolIds
    /\ run_pc = "raised"
    /\ run_manifest.msg = <<E_UNKNOWN_TARGETS, {Item("plain", "missing")}>>

\* a manifest with two tools of one id was read
DuplicateIdsRejected ==
    ManifestRead /\ DuplicateToolIds /\ EveryToolValid /\ run_manifest.msg = <<E_UNIQUE>>


\* the names of the placeholders of the command
CommandPlaceholderNames ==
    UNION {PlaceholderNames(fn_args.command[p]) : p \in DOMAIN fn_args.command}

\* image.reference, or inputs.<key> for a declared key
Declared(name) ==
    \/ name = IMAGE_REFERENCE
    \/ \E key \in fn_args.input_keys : name = INPUTS_PREFIX \o key

Rejected == ~fn_out.ok /\ fn_out.err = "ValidationError" /\ fn_out.val = NoValue

UnsupportedNameRejected ==
    /\ fn_pc = "done"
    /\ <<"o", "u", "t", "p", "u", "t", "s">> \in CommandPlaceholderNames
    /\ fn_out.msg[1] = E_UNSUPPORTED

\* some "{{" or "}}" of the token has no character inside a placeholder
StrayMarker(part) ==
    \E i \in 1..(Len(part) - 1) :
        /\ <<part[i], part[i + 1]>> \in {OPEN, CLOSE}
        /\ ~\E a \in 1..(i + 1) : \E b \in i..Len(part) : IsPlaceholderSpan(part, a, b)

\* C15: validation rejects a Tool whose command has a token with a "{{" or
\* "}}" that is not part of a placeholder, also when the token holds a
\* well-formed recognized placeholder next to it.
C15_StrayMarkersRejected ==
    fn_pc = "done" =>
       ((\E p \in DOMAIN fn_args.command : StrayMarker(fn_args.command[p])) => Rejected)

\* what validate_command_tokens does reject: a token with a brace marker and
\* no placeholder at all
MarkerWithoutPlaceholderRejected ==
    fn_pc = "done" =>
       ((\E p \in DOMAIN fn_args.command :
            HasBraceMarker(fn_args.command[p]) /\ FindAll(fn_args.command[p]) = <<>>)
          => Rejected)

\* "{{inputs.a}} }}" with a declared passes validation
StrayMarkerAccepted ==
    /\ fn_pc = "done"
    /\ fn_args.command = << OPEN \o INPUTS_PREFIX \o KEY_A \o CLOSE \o <<" ">> \o CLOSE >>
    /\ KEY_A \in fn_args.input_keys
    /\ fn_out.ok


(***************************************************************************)
(* The instant of a datetime counted on its own, from the days of the      *)
(* proleptic Gregorian calendar, and the reading of a formatted stamp.     *)
(***************************************************************************)
DAYS_BEFORE_MONTH == <<0, 31, 59, 90, 120, 151, 181, 212, 243, 273, 304, 334>>

LeapDaysThrough(year) == (year \div 4) - (year \div 100) + (year \div 400)

\* the day number of a date, day 1 being 0001-01-01
Ordinal(year, month, day) ==
    (year - 1) * 365 + LeapDaysThrough(year - 1) + DAYS_BEFORE_MONTH[month]
        + (IF month > 2 /\ LeapDaysThrough(year) # LeapDaysThrough(year - 1)
           THEN 1 ELSE 0)
        + day

OffsetOf(t) == IF t.tzinfo = None THEN 0 ELSE The(t.tzinfo)

\* the UTC second a datetime falls in: <<day number, second of that day>>
UtcSecond(t) ==
    LET clock == t.hour * 3600 + t.minute * 60 + t.second - OffsetOf(t)
    IN  <<Ordinal(t.year, t.month, t.day) + (clock \div 86400), clock % 86400>>

DigitValue(c) == CHOOSE d \in 0..9 : ToString(d) = c

RECURSIVE Number(_)
Number(chars) ==
    IF chars = <<>> THEN 0
    ELSE 10 * Number(SubSeq(chars, 1, Len(chars) - 1)) + DigitValue(chars[Len(chars)])

\* YYYYMMDDTHHMMSSZ with the fields of a date and a time of day
IsStamp(st) ==
    /\ Len(st) = 16
    /\ st[9] = "T"
    /\ st[16] = "Z"
    /\ \A i \in (1..8) \cup (10..15) : \E d \in 0..9 : st[i] = ToString(d)
    /\ Number(SubSeq(st, 5, 6)) \in 1..12
    /\ Number(SubSeq(st, 7, 8)) >= 1
    /\ Ordinal(Number(SubSeq(st, 1, 4)), Number(SubSeq(st, 5, 6)), Number(SubSeq(st, 7, 8)))
          < (IF Number(SubSeq(st, 5, 6)) = 12
             THEN Ordinal(Number(SubSeq(st, 1, 4)) + 1, 1, 1)
             ELSE Ordinal(Number(SubSeq(st, 1, 4)), Number(SubSeq(st, 5, 6)) + 1, 1))
    /\ Number(SubSeq(st, 10, 11)) <= 23
    /\ Number(SubSeq(st, 12, 13)) <= 59
    /\ Number(SubSeq(st, 14, 15)) <= 59

\* the second a stamp names
StampSecond(st) ==
    <<Ordinal(Number(SubSeq(st, 1, 4)), Number(SubSeq(st, 5, 6)), Number(SubSeq(st, 7, 8))),
      Number(SubSeq(st, 10, 11)) * 3600 + Number(SubSeq(st, 12, 13)) * 60
          + Number(SubSeq(st, 14, 15))>>

\* the directory is root/<sub-directory>/tool id/<stamp of the UTC second>
IsWorkspaceOf(dir, call, subdir) ==
    /\ Len(dir) = Len(ResolvePath(call.root)) + 3
    /\ SubSeq(dir, 1, Len(dir) - 3) = ResolvePath(call.root)
    /\ dir[Len(dir) - 2] = subdir
    /\ dir[Len(dir) - 1] = call.tool_id
    /\ IsStamp(dir[Len(dir)])
    /\ StampSecond(dir[Len(dir)]) = UtcSecond(call.run_time)

SameWorkspaceKey(a, b) ==
    /\ ResolvePath(a.root) = ResolvePath(b.root)
    /\ a.tool_id = b.tool_id
    /\ UtcSecond(a.run_time) = UtcSecond(b.run_time)

\* C17: calls of create with the same root and tool id whose times fall in
\* the same UTC second, whatever their zone offset and sub-second part, a
\* naive time read as UTC, all succeed where directories can be made and all
\* return the same directory; a later one succeeds on the directory left by
\* an earlier one.
C17_SameSecondSameDirectory ==
    \A i, j \in DOMAIN ws_calls :
        (i < j /\ SameWorkspaceKey(ws_calls[i], ws_calls[j])) =>
           /\ ws_writable => (ws_calls[i].out.ok /\ ws_calls[j].out.ok)
           /\ ws_calls[i].out.ok =>
                  (ws_calls[j].out.ok /\ ws_calls[j].out.val = ws_calls[i].out.val)

\* a naive time and a time an hour east of UTC with a sub-second part, the
\* same second, gave one directory
C17_Witness ==
    \E i, j \in DOMAIN ws_calls :
        /\ i < j
        /\ ws_calls[i].run_time = DateTime(2026, 2, 18, 20, 0, 0, 0, None)
        /\ ws_calls[j].run_time = DateTime(2026, 2, 19, 1, 30, 0, 500000, Some(19800))
        /\ SameWorkspaceKey(ws_calls[i], ws_calls[j])
        /\ ws_calls[j].out.ok
        /\ ws_calls[j].out.val = ws_calls[i].out.val

\* C18 as stated: no two runs under way at once ever write outputs into the
\* same workspace directory.
C18_RunsNeverShareWorkspace ==
    \A a, b \in iso_outputs :
        (a.writer # b.writer /\ iso_pc[a.writer] = "return" /\ iso_pc[b.writer] = "return")
            => a.dir # b.dir

\* C18 as the code has it: two runs under way at once write into the same
\* directory only when their root, tool id and UTC second are the same, and
\* then they do.
C18_RunsShareOnlyOnSameKey ==
    \A a, b \in iso_outputs :
        a.writer # b.writer =>
           (a.dir = b.dir <=> SameWorkspaceKey(
                [root |-> iso_ctx[a.writer].root, tool_id |-> iso_ctx[a.writer].tool_id,
                 run_time |-> iso_ctx[a.writer].time],
                [root |-> iso_ctx[b.writer].root, tool_id |-> iso_ctx[b.writer].tool_id,
                 run_time |-> iso_ctx[b.writer].time]))

\* two runs a second apart, of one tool under one root, wrote into two
\* directories
C18_Witness ==
    \E a, b \in iso_outputs :
        /\ a.writer # b.writer
        /\ iso_ctx[a.writer].root = iso_ctx[b.writer].root
        /\ iso_ctx[a.writer].tool_id = iso_ctx[b.writer].tool_id
        /\ iso_ctx[a.writer].time = DateTime(2026, 2, 18, 20, 0, 0, 0, None)
        /\ iso_ctx[b.writer].time = DateTime(2026, 2, 18, 20, 0, 1, 0, None)
        /\ a.dir # b.dir


InputKey == fn_args.tool.inputs[1].key

InputSource == fn_args.tool.inputs[1].value.source

\* the name the packaged asset of the input is registered under: the input's
\* name, or only when there is none, the tool's parser name
RegisteredUnder ==
    IF InputKey \in DOMAIN DEFAULT_INPUT_REGISTRY THEN {InputKey}
    ELSE {fn_args.tool.parser} \cap DOMAIN DEFAULT_INPUT_REGISTRY

\* what the claim C19 says of a call that is done
PackagedAssetResolved ==
    IF RegisteredUnder = {}
    THEN ~fn_out.ok /\ fn_out.err = "ValueError" /\ fn_out.msg[1] = E_NO_DEFAULT
    ELSE \A name \in RegisteredUnder :
            IF DEFAULT_INPUT_REGISTRY[name] \in fn_args.files
            THEN fn_out.ok /\ fn_out.val = DEFAULT_INPUT_REGISTRY[name]
            ELSE ~fn_out.ok /\ fn_out.err = "ValueError"
                    /\ fn_out.msg[1] = E_DEFAULT_MISSING

\* C19: the host file of a declared input with source "default" whose name
\* is not "dockerfile" is the packaged asset registered under the input's
\* name or, only when there is none, under the tool's parser name; resolving
\* fails with "no packaged default input" when neither is registered, and
\* fails when the registered file does not exist.
C19_DefaultSourceResolvesPackagedAsset ==
    (/\ fn_pc = "done"
     /\ fn_args.caller = "_build_volumes"
     /\ InputSource = DEFAULT_SOURCE
     /\ InputKey # KEY_DOCKERFILE) => PackagedAssetResolved

\* the body of defaults.input, reached with all three arguments, does what
\* C19 says
InputBodyResolvesPackagedAsset ==
    (/\ fn_pc = "done"
     /\ fn_args.caller = "direct"
     /\ InputKey # KEY_DOCKERFILE) => PackagedAssetResolved

\* _build_volumes never gets a packaged asset
DefaultSourceRaisesTypeError ==
    (/\ fn_pc = "done"
     /\ fn_args.caller = "_build_volumes"
     /\ InputSource = DEFAULT_SOURCE)
        => (~fn_out.ok /\ fn_out.err = "TypeError"
              /\ fn_out.msg = <<E_MISSING_ARGUMENT, {"manifest"}>>)

\* the Dockerfile the build section of the manifest names
BuildDockerfile ==
    ResolvePath(IF Head(fn_args.payload.build.file) = "/"
                THEN fn_args.payload.build.file
                ELSE Parent(fn_args.manifest) \o fn_args.payload.build.context
                         \o fn_args.payload.build.file)

\* what the claim C20 says of a call that is done
DockerfileResolved ==
    IF fn_args.manifest \in fn_args.files /\ BuildDockerfile \in fn_args.files
    THEN fn_out.ok /\ fn_out.val = BuildDockerfile
    ELSE ~fn_out.ok /\ fn_out.err \in {"ValueError", "FileNotFoundError"}

\* C20: the host file of an input named "dockerfile" is the Dockerfile of the
\* manifest's build section, build.file if absolute and else manifest
\* directory/build.context/build.file; resolving fails unless it is an
\* existing file; and this holds whatever the source of the input.
C20_DockerfileFromBuildSection ==
    (/\ fn_pc = "done"
     /\ fn_args.caller = "_build_volumes"
     /\ InputKey = KEY_DOCKERFILE) => DockerfileResolved

\* the body of defaults.input, reached with all three arguments, does what
\* C20 says
InputBodyResolvesDockerfile ==
    (/\ fn_pc = "done"
     /\ fn_args.caller = "direct"
     /\ InputKey = KEY_DOCKERFILE) => DockerfileResolved

\* an input named "dockerfile" with a source of its own is bound to that
\* source, not to the Dockerfile of the build section
DockerfileInputTakesItsSource ==
    /\ fn_pc = "done"
    /\ fn_args.caller = "_build_volumes"
    /\ InputKey = KEY_DOCKERFILE
    /\ InputSource # DEFAULT_SOURCE
    /\ BuildDockerfile \in fn_args.files
    /\ fn_out.ok
    /\ fn_out.val = CFG_FILE


\* the host file a source names: itself if absolute, else taken from the
\* directory that holds the manifest
NamedFile ==
    ResolvePath(IF Head(fn_args.source) = "/" THEN fn_args.source
                ELSE Parent(fn_args.manifest) \o fn_args.source)

RelativeSource == fn_args.source # DEFAULT_SOURCE /\ Head(fn_args.source) # "/"

\* C21: a source other than "default" is a path; a relative one names the
\* same host file under the manifest's directory whether it is normalized at
\* load or resolved for the volume map; load-time normalization leaves an
\* absolute source and "default" unchanged; normalizing twice is normalizing
\* once; and resolution fails when the file does not exist.
C21_SourceResolvesAgainstManifestDir ==
    fn_pc = "done" =>
       /\ ~RelativeSource =>
              \A i \in DOMAIN fn_out.val.inputs :
                  fn_out.val.inputs[i] = fn_out.val.inputs[1]
       /\ RelativeSource =>
              \A i \in DOMAIN fn_out.val.inputs :
                  i > 1 => fn_out.val.inputs[i].source = NamedFile
       /\ \A i \in DOMAIN fn_out.val.inputs :
              i > 2 => fn_out.val.inputs[i] = fn_out.val.inputs[2]
       /\ fn_args.source # DEFAULT_SOURCE =>
              \A i \in DOMAIN fn_out.val.resolved :
                  IF NamedFile \in fn_args.files
                  THEN fn_out.val.resolved[i] = Ok(NamedFile)
                  ELSE /\ ~fn_out.val.resolved[i].ok
                       /\ fn_out.val.resolved[i].err = "ValueError"
                       /\ fn_out.val.resolved[i].msg = <<E_SOURCE_NOT_FOUND, NamedFile>>

\* a relative source that climbs out of and back into the manifest's
\* directory, normalized twice, names the file of that directory each time
C21_Witness ==
    /\ fn_pc = "done"
    /\ fn_args.manifest = MANIFEST_FILE
    /\ fn_args.source = <<"..", "m", "cfg.yaml">>
    /\ Len(fn_out.val.inputs) = 3
    /\ fn_out.val.inputs[3].source = CFG_FILE
    /\ fn_out.val.resolved[1] = Ok(CFG_FILE)
    /\ fn_out.val.resolved[3] = Ok(CFG_FILE)

\* a relative source whose file is missing fails to resolve
MissingSourceFails ==
    /\ fn_pc = "done"
    /\ fn_args.source = <<"missing.yaml">>
    /\ ~fn_out.val.resolved[1].ok


\* C22: run accepts a context that carries an explicit Tool and no manifest
\* path: it takes that tool and places the workspace at
\* output_root/<fixed sub-directory>/<tool id>/<timestamp>.
C22_RunAcceptsExplicitTool ==
    (/\ RunEnded
     /\ run_context.manifest = None
     /\ run_context.tool # None
     /\ fs_writable) =>
        /\ run_tool = Ok(The(run_context.tool))
        /\ run_output_dir =
               Ok(ResolvePath(The(run_context.output_root))
                     \o <<OUTPUT_ROOT_DIRNAME, The(run_context.tool).id,
                          Format(run_context.time)>>)

\* what run does with such a context: its first statement fails on the
\* manifest that is None, and nothing else happens
ExplicitToolRunRaisesAtLoad ==
    (run_steps # <<>> /\ run_context.manifest = None) =>
        /\ run_pc = "raised"
        /\ run_steps = <<"load">>
        /\ run_outcome = Raise("AttributeError", <<"resolve">>)
        /\ fs_dirs = {}
        /\ run_invocations = 0

\* every context run is given carries a manifest path or an explicit Tool
ContextCarriesManifestOrTool ==
    run_pc # "idle" => (run_context.manifest # None \/ run_context.tool # None)


(***************************************************************************)
(* Claims about the container runtime adapter.                             *)
(***************************************************************************)
AdapterEnded == ad_pc \in {"returned", "raised"}

ContainerCreated == ad_container.state # "none"

FailedRemovalKeepsResult ==
    /\ ad_pc = "returned"
    /\ ad_removals = <<DOCKER_EXCEPTION>>
    /\ ad_out.ok
    /\ Len(ad_out.val.stdout) + Len(ad_out.val.stderr) = MaxChunks


WaitingForExit == ad_pc \in {"wait", "fallback_wait"}

\* C24: on the demux path and on the fallback path alike, run has opened the
\* container's output for reading before it waits for the container to exit.
C24_ReadsBeforeWaitingForExit == WaitingForExit => ad_locals.opened

\* what holds instead: the demux path has read all the container wrote before
\* the wait; the fallback path without stream_output waits first and reads the
\* whole log of the exited container afterwards
DemuxDrainsBeforeWait ==
    /\ ad_pc = "wait" =>
        /\ ad_locals.opened
        /\ ad_locals.stdout = StreamOf(ad_container.log, "stdout")
        /\ ad_locals.stderr = StreamOf(ad_container.log, "stderr")
    /\ (ad_pc = "fallback_wait" /\ ~ad_env.stream_output) =>
        /\ ~ad_locals.opened
        /\ ad_locals.read = 0
    /\ (ad_pc = "finish" /\ ~ad_env.demux) =>
        /\ ad_locals.stdout = StreamOf(ad_container.log, "stdout")
        /\ ad_locals.stderr = StreamOf(ad_container.log, "stderr")

\* the fallback path waits on a running container that has written all it can
\* while nothing has been read
FallbackWaitsUnread ==
    /\ ad_pc = "fallback_wait"
    /\ ~ad_locals.opened
    /\ ad_container.state = "running"
    /\ Len(ad_container.log) = MaxChunks


\* run returned a result only once the container had exited and all it wrote
\* had been read; a hung container's run does not return
ReturnsOnlyAfterExit ==
    /\ ad_pc = "returned" =>
        /\ ad_container.status # None
        /\ ad_out.val.exit_code = The(ad_container.status)
        /\ ad_out.val.stdout = StreamOf(ad_container.log, "stdout")
        /\ ad_out.val.stderr = StreamOf(ad_container.log, "stderr")
    /\ ad_env.hangs => ad_pc # "returned"
    /\ (ad_pc = "raised" /\ ad_container.status = None) =>
        ad_out = Raise(DOCKER_EXCEPTION, ad_out.msg)

HungContainerBlocksRun ==
    /\ ad_env.hangs
    /\ ad_pc = "demux_read"
    /\ ad_container.state = "running"
    /\ ad_locals.read = MaxChunks


(***************************************************************************)
(* Claims about the command line.                                          *)
(***************************************************************************)
CliDone == fn_pc = "done" /\ fn_args.command \in CLI_COMMANDS

\* C25: lint, scan and refurbish end the process with the container's exit
\* code when dispatch completes, with 2 when manifest resolution fails
\* (ValueError), and with 1 for any other exception; never with 0 after an
\* exception.
C25_ExitCodeTellsOutcome ==
    CliDone =>
        fn_out.val =
            IF fn_args.dispatch = "completes" THEN fn_args.exit_code
            ELSE IF fn_args.dispatch = "ValueError" THEN 2
            ELSE 1

\* what holds instead: only scan turns ValueError into 2; every other
\* exception ends the process with 0 through main() and with 1 through cli
ExitCodeOfTheCode ==
    CliDone =>
        fn_out.val =
            IF fn_args.dispatch = "completes" THEN fn_args.exit_code
            ELSE IF fn_args.dispatch = "ValueError" /\ fn_args.command = "scan" THEN 2
            ELSE IF fn_args.entry = "main" THEN 0
            ELSE 1

\* lint through main(): manifest resolution failed and the process ended with 0
FailedLintExitsZero ==
    /\ CliDone
    /\ fn_args.command = "lint"
    /\ fn_args.entry = "main"
    /\ fn_args.dispatch = "ValueError"
    /\ fn_out.val = 0


(***************************************************************************)
(* Claims about ToolInputs.                                                *)
(***************************************************************************)
IsAbsoluteDestination(destination) ==
    /\ Len(destination) > 0
    /\ destination[1] = "/"

RelativeDestinationRejected ==
    /\ fn_pc = "done"
    /\ fn_args.destination = Some(<<" ", "/", "c">>)
    /\ fn_args.source = DEFAULT_SOURCE
    /\ fn_out.err = "ValidationError"
    /\ fn_out.msg = <<E_DESTINATION>>


(***************************************************************************)
(* Claims about validation and rendering together.                         *)
(***************************************************************************)
RenderedAfterValidation == fn_pc = "done" /\ fn_out.err # "ValidationError"

ValidatedCommandRendersMalformed ==
    /\ RenderedAfterValidation
    /\ ~fn_out.ok
    /\ fn_out.msg = <<E_MALFORMED>>


(***************************************************************************)
(* Claims about the workspace of a failed run.                             *)
(***************************************************************************)
LastStep == run_steps[Len(run_steps)]

FailedBeforeContainer ==
    /\ run_pc = "raised"
    /\ run_steps # <<>>
    /\ LastStep \in {"render", "volumes"}

\* C29: run creates the workspace directory before it renders the command and
\* before it resolves any input, and leaves it in place when it fails: after a
\* run that failed at rendering or at input resolution no container was
\* started and the directory for its tool id and time exists.
C29_FailedRunLeavesWorkspace ==
    /\ \A i \in DOMAIN run_steps :
        run_steps[i] \in {"render", "volumes"} =>
            \E j \in 1..(i - 1) : run_steps[j] = "workspace"
    /\ FailedBeforeContainer =>
        /\ run_invocations = 0
        /\ run_result.err = "NotCalled"
        /\ run_output_dir.ok
        /\ run_output_dir.val =
            RunDir(Parent(The(run_manifest_path)), run_tool.val.id, run_context.time)
        /\ run_output_dir.val \in fs_dirs

\* a run that failed at input resolution, its workspace left behind
C29_Witness ==
    /\ FailedBeforeContainer
    /\ LastStep = "volumes"
    /\ run_output_dir.val \in fs_dirs

\* a run that failed at rendering, its workspace left behind
FailedRenderLeavesWorkspace ==
    /\ FailedBeforeContainer
    /\ LastStep = "render"
    /\ run_command.msg = <<E_MALFORMED>>
    /\ run_output_dir.val \in fs_dirs


(***************************************************************************)
(* Claims about the parsers of validated tools.                            *)
(***************************************************************************)
DispatchedAfterRun == fn_pc = "done" /\ fn_args.run = "completes"

UnknownParser == ~fn_out.ok /\ fn_out.msg = <<E_UNKNOWN_PARSER, fn_args.parser>>

\* C30: every parser kind a validated Tool can carry has a registered parser
\* adapter, so dispatch never raises "Unknown parser" once the tool's
\* container has run.
C30_ValidatedParserHasAdapter == DispatchedAfterRun => ~UnknownParser

\* what holds instead: after the container has run, dispatch raises "Unknown
\* parser" exactly for curate, provenance and push
UnknownParserForUnregisteredKinds ==
    DispatchedAfterRun =>
        UnknownParser = (fn_args.parser \in {PARSER_CURATE, PARSER_PROVENANCE, PARSER_PUSH})

\* a curate tool bound to lint: its container exited with 0, dispatch raised
CurateToolFailsAfterRun ==
    /\ DispatchedAfterRun
    /\ fn_args.parser = PARSER_CURATE
    /\ fn_args.command = "lint"
    /\ fn_args.exit_code = 0
    /\ UnknownParser

=============================================================================
